---------------------------- MODULE Spec2Model ----------------------------
(***************************************************************************)
(* Bit-packed Game of Life evolution engine (AsmirZukic/game_of_life).     *)
(*                                                                         *)
(* A u64 word is modelled as the set of its set bit positions (lanes       *)
(* 0..63): bitwise AND/OR/XOR/NOT are set operations and the shifts drop   *)
(* the bits that leave the 64-bit word, as the machine operations do.      *)
(* Vectors are functions over 0..len-1 so that the index arithmetic of the *)
(* source is kept as written.                                              *)
(***************************************************************************)
EXTENDS Integers, FiniteSets, Sequences, TLC

----------------------------------------------------------------------------
(* u64 words                                                               *)

WORD_BITS == 64
Lanes == 0 .. (WORD_BITS - 1)

Shr(w, n) == { i - n : i \in { j \in w : j >= n } }
Shl(w, n) == { i + n : i \in { j \in w : j + n < WORD_BITS } }
BitAnd(a, b) == a \cap b
BitOr(a, b) == a \cup b
BitXor(a, b) == (a \ b) \cup (b \ a)
BitNot(a) == Lanes \ a
\* (1u64 << n) - 1 for n < 64
LowMask(n) == 0 .. (n - 1)
\* A vector value in evaluated form: the identity on values (TLC would
\* otherwise recompute an element of [i \in S |-> e] at every access).
Vec(f) == IF f = << >> THEN << >> ELSE f

\* `if b { 1u64 << i } else { 0 }`
BitIf(b, i) == IF b THEN {i} ELSE {}

Min(a, b) == IF a < b THEN a ELSE b
Max(a, b) == IF a > b THEN a ELSE b
\* Rust `%` on i32: the remainder takes the sign of the dividend
RustRem(a, b) == IF a >= 0 THEN a % b ELSE 0 - ((0 - a) % b)

----------------------------------------------------------------------------
(* domain/rules.rs                                                         *)

Rules == {"Conway", "HighLife", "Seeds", "Day&Night"}

ConwayRule_evolve(current, neighbors) ==
    IF current = "Alive" /\ neighbors \in {2, 3} THEN "Alive"
    ELSE IF current = "Dead" /\ neighbors = 3 THEN "Alive"
    ELSE "Dead"

HighLifeRule_evolve(current, neighbors) ==
    IF current = "Alive" /\ neighbors \in {2, 3} THEN "Alive"
    ELSE IF current = "Dead" /\ neighbors \in {3, 6} THEN "Alive"
    ELSE "Dead"

SeedsRule_evolve(current, neighbors) ==
    IF current = "Dead" /\ neighbors = 2 THEN "Alive"
    ELSE "Dead"

\* Day & Night with the birth and the survival counts exchanged
DayAndNightRule_evolve_exchanged(current, neighbors) ==
    IF current = "Alive" /\ neighbors \in {3, 6, 7, 8} THEN "Alive"
    ELSE IF current = "Dead" /\ neighbors \in {3, 4, 6, 7, 8} THEN "Alive"
    ELSE "Dead"

DayAndNightRule_evolve(current, neighbors) ==
    IF current = "Alive" /\ neighbors \in {3, 4, 6, 7, 8} THEN "Alive"
    ELSE IF current = "Dead" /\ neighbors \in {3, 6, 7, 8} THEN "Alive"
    ELSE "Dead"

\* dynamic dispatch of `rule.evolve(current, neighbors)`
Rule_evolve(rule, current, neighbors) ==
    CASE rule = "Conway" -> ConwayRule_evolve(current, neighbors)
      [] rule = "HighLife" -> HighLifeRule_evolve(current, neighbors)
      [] rule = "Seeds" -> SeedsRule_evolve(current, neighbors)
      [] rule = "Day&Night" -> DayAndNightRule_evolve(current, neighbors)

----------------------------------------------------------------------------
(* domain/simd_life.rs: lookup table and word-parallel kernel              *)

\* lookup table with the dead and alive halves exchanged
build_rule_lookup_swapped(rule) ==
    [ idx \in 0 .. 31 |->
        IF idx <= 8 THEN Rule_evolve(rule, "Alive", idx) = "Alive"
        ELSE IF idx >= 16 /\ idx <= 24
             THEN Rule_evolve(rule, "Dead", idx - 16) = "Alive"
        ELSE FALSE ]

build_rule_lookup(rule) ==
    [ idx \in 0 .. 31 |->
        IF idx <= 8 THEN Rule_evolve(rule, "Dead", idx) = "Alive"
        ELSE IF idx >= 16 /\ idx <= 24
             THEN Rule_evolve(rule, "Alive", idx - 16) = "Alive"
        ELSE FALSE ]

\* full adder whose carry ignores the third input
full_adder_two_input_carry(a, b, c) ==
    << BitXor(BitXor(a, b), c), BitAnd(a, b) >>

\* returns <<sum, carry>>
full_adder(a, b, c) ==
    << BitXor(BitXor(a, b), c),
       BitOr(BitAnd(a, b), BitAnd(c, BitXor(a, b))) >>

half_adder(a, b) == << BitXor(a, b), BitAnd(a, b) >>

\* returns <<bit0, bit1, bit2, bit3>>
compute_neighbor_counts(above, current, below, left_bit_above, right_bit_above, left_bit_current, right_bit_current, left_bit_below, right_bit_below) ==
    LET above_left == BitOr(Shr(above, 1), BitIf(left_bit_above, 63))
        above_right == BitOr(Shl(above, 1), BitIf(right_bit_above, 0))
        current_left == BitOr(Shr(current, 1), BitIf(left_bit_current, 63))
        current_right == BitOr(Shl(current, 1), BitIf(right_bit_current, 0))
        below_left == BitOr(Shr(below, 1), BitIf(left_bit_below, 63))
        below_right == BitOr(Shl(below, 1), BitIf(right_bit_below, 0))
        a1 == full_adder(above_left, above, above_right)
        a2 == full_adder(current_left, current_right, below_left)
        a3 == full_adder(below, below_right, {})
        sa == full_adder(a1[1], a2[1], a3[1])
        sb == full_adder(a1[2], a2[2], a3[2])
        h0 == half_adder(sa[1], {})
        f1 == full_adder(sb[1], sa[2], h0[2])
        f2 == full_adder(sb[2], {}, f1[2])
    IN  << h0[1], f1[1], f2[1], f2[2] >>

apply_rule_lookup(current, bit0, bit1, bit2, bit3, lookup) ==
    { i \in Lanes :
        LET count == (IF i \in bit3 THEN 8 ELSE 0) + (IF i \in bit2 THEN 4 ELSE 0)
                   + (IF i \in bit1 THEN 2 ELSE 0) + (IF i \in bit0 THEN 1 ELSE 0)
            is_alive == IF i \in current THEN 1 ELSE 0
        IN  lookup[is_alive * 16 + count] }

compute_next_chunk_with_rule(above, current, below, left_bit_above, right_bit_above, left_bit_current, right_bit_current, left_bit_below, right_bit_below, lookup) ==
    LET c == compute_neighbor_counts(above, current, below,
                                     left_bit_above, right_bit_above,
                                     left_bit_current, right_bit_current,
                                     left_bit_below, right_bit_below)
    IN  apply_rule_lookup(current, c[1], c[2], c[3], c[4], lookup)

\* the closed form without the test of bit 2 of the count
compute_next_chunk_conway_low_bits(above, current, below, left_bit_above, right_bit_above, left_bit_current, right_bit_current, left_bit_below, right_bit_below) ==
    LET c == compute_neighbor_counts(above, current, below, left_bit_above, right_bit_above, left_bit_current, right_bit_current, left_bit_below, right_bit_below)
        count_is_2 == BitAnd(BitAnd(BitNot(c[4]), c[2]), BitNot(c[1]))
        count_is_3 == BitAnd(BitAnd(BitNot(c[4]), c[2]), c[1])
    IN  BitOr(count_is_3, BitAnd(current, count_is_2))

compute_next_chunk_conway(above, current, below, left_bit_above, right_bit_above, left_bit_current, right_bit_current, left_bit_below, right_bit_below) ==
    LET c == compute_neighbor_counts(above, current, below, left_bit_above, right_bit_above, left_bit_current, right_bit_current, left_bit_below, right_bit_below)
        count_is_2 == BitAnd(BitAnd(BitAnd(BitNot(c[4]), BitNot(c[3])), c[2]), BitNot(c[1]))
        count_is_3 == BitAnd(BitAnd(BitAnd(BitNot(c[4]), BitNot(c[3])), c[2]), c[1])
    IN  BitOr(count_is_3, BitAnd(current, count_is_2))

----------------------------------------------------------------------------
(* domain/bit_grid.rs: BitGrid                                             *)

\* (n + 63) / 64
CeilDiv64(n) == (n + 63) \div 64

BitGrid_new(width, height) ==
    [ width |-> width, height |-> height, chunk_width |-> CeilDiv64(width),
      chunks |-> Vec([ i \in 0 .. (CeilDiv64(width) * height - 1) |-> {} ]) ]

BitGrid_from_chunks(width, height, raw_chunks) ==
    [ width |-> width, height |-> height, chunk_width |-> CeilDiv64(width),
      chunks |-> raw_chunks ]

BitGrid_dimensions(g) == << g.width, g.height >>

ChunksLen(g) == Cardinality(DOMAIN g.chunks)

\* self.chunks.len() * size_of::<Chunk64>()
BitGrid_memory_bytes(g) == ChunksLen(g) * (WORD_BITS \div 8)

\* get that indexes the words by the column only
BitGrid_get_first_row(g, x, y) ==
    IF x >= g.width \/ y >= g.height THEN FALSE
    ELSE (x % 64) \in g.chunks[x \div 64]

BitGrid_get(g, x, y) ==
    IF x >= g.width \/ y >= g.height THEN FALSE
    ELSE (x % 64) \in g.chunks[y * g.chunk_width + (x \div 64)]

\* set with the bounds check made against the stored row length
BitGrid_set_row_capacity(g, x, y, alive) ==
    IF x >= 64 * g.chunk_width \/ y >= g.height THEN g
    ELSE LET chunk_idx == y * g.chunk_width + (x \div 64)
             bit_idx == x % 64
         IN  [ g EXCEPT !.chunks[chunk_idx] =
                 IF alive THEN @ \cup {bit_idx} ELSE @ \ {bit_idx} ]

BitGrid_set(g, x, y, alive) ==
    IF x >= g.width \/ y >= g.height THEN g
    ELSE LET chunk_idx == y * g.chunk_width + (x \div 64)
             bit_idx == x % 64
         IN  [ g EXCEPT !.chunks[chunk_idx] =
                 IF alive THEN @ \cup {bit_idx} ELSE @ \ {bit_idx} ]

BitGrid_get_chunk(g, chunk_x, y) ==
    IF y >= g.height \/ chunk_x >= g.chunk_width THEN {}
    ELSE g.chunks[y * g.chunk_width + chunk_x]

BitGrid_set_chunk(g, chunk_x, y, value) ==
    IF y >= g.height \/ chunk_x >= g.chunk_width THEN g
    ELSE [ g EXCEPT !.chunks[y * g.chunk_width + chunk_x] = value ]

\* get_word64 that never reads the following word
BitGrid_get_word64_one_word(g, x, y) ==
    LET chunk_idx == y * g.chunk_width + (x \div 64)
        bit_idx == x % 64
    IN  IF chunk_idx >= ChunksLen(g) THEN {}
        ELSE Shr(g.chunks[chunk_idx], bit_idx)

BitGrid_get_word64(g, x, y) ==
    LET chunk_idx == y * g.chunk_width + (x \div 64)
        bit_idx == x % 64
    IN  IF chunk_idx >= ChunksLen(g) THEN {}
        ELSE LET low == Shr(g.chunks[chunk_idx], bit_idx)
             IN  IF bit_idx = 0 THEN low
                 ELSE IF chunk_idx + 1 < ChunksLen(g)
                      THEN BitOr(low, Shl(g.chunks[chunk_idx + 1], 64 - bit_idx))
                      ELSE low

\* set_word64_or that leaves the following word alone
BitGrid_set_word64_or_one_word(g, x, y, val) ==
    LET chunk_idx == y * g.chunk_width + (x \div 64)
        bit_idx == x % 64
    IN  IF chunk_idx >= ChunksLen(g) THEN g
        ELSE [ g EXCEPT !.chunks[chunk_idx] = BitOr(@, Shl(val, bit_idx)) ]

BitGrid_set_word64_or(g, x, y, val) ==
    LET chunk_idx == y * g.chunk_width + (x \div 64)
        bit_idx == x % 64
    IN  IF chunk_idx >= ChunksLen(g) THEN g
        ELSE IF bit_idx = 0
             THEN [ g EXCEPT !.chunks[chunk_idx] = BitOr(@, val) ]
        ELSE LET g1 == [ g EXCEPT !.chunks[chunk_idx] = BitOr(@, Shl(val, bit_idx)) ]
             IN  IF chunk_idx + 1 < ChunksLen(g)
                 THEN [ g1 EXCEPT !.chunks[chunk_idx + 1] =
                                      BitOr(@, Shr(val, 64 - bit_idx)) ]
                 ELSE g1

Offsets == { d \in (-1 .. 1) \X (-1 .. 1) : d # << 0, 0 >> }

\* a count of the distinct neighbouring cells that are alive
BitGrid_count_neighbors_distinct(g, x, y) ==
    LET w == g.width
        h == g.height
    IN  Cardinality({ c \in { << RustRem(RustRem(x + d[1], w) + w, w),
                                 RustRem(RustRem(y + d[2], h) + h, h) >> : d \in Offsets } :
            BitGrid_get(g, c[1], c[2]) })

BitGrid_count_neighbors(g, x, y) ==
    LET w == g.width
        h == g.height
    IN  Cardinality({ d \in Offsets :
            LET nx == RustRem(RustRem(x + d[1], w) + w, w)
                ny == RustRem(RustRem(y + d[2], h) + h, h)
            IN  BitGrid_get(g, nx, ny) })

BitGrid_count_alive(g) ==
    LET RECURSIVE Sum(_)
        Sum(n) == IF n = 0 THEN 0 ELSE Cardinality(g.chunks[n - 1]) + Sum(n - 1)
    IN  Sum(ChunksLen(g))

\* a clear that empties the vector of words (Vec::clear)
BitGrid_clear_truncating(g) == [ g EXCEPT !.chunks = << >> ]

BitGrid_clear(g) == [ g EXCEPT !.chunks = Vec([ i \in DOMAIN g.chunks |-> {} ]) ]

\* the cell (x, y) of the next generation, as computed in the loop body of
\* BitGrid::evolve and BitGrid::evolve_parallel
NextCellAlive(g, rule, x, y) ==
    LET neighbors == BitGrid_count_neighbors(g, x, y)
        current == IF BitGrid_get(g, x, y) THEN "Alive" ELSE "Dead"
    IN  Rule_evolve(rule, current, neighbors) = "Alive"

\* `next` starts zeroed and receives next.set(x, y, true) for every x < width,
\* y < height whose next state is Alive
BitGrid_evolve(g, rule) ==
    [ BitGrid_new(g.width, g.height) EXCEPT !.chunks =
        Vec([ i \in DOMAIN g.chunks |->
            { b \in Lanes :
                LET x == 64 * (i % g.chunk_width) + b
                    y == i \div g.chunk_width
                IN  x < g.width /\ NextCellAlive(g, rule, x, y) } ]) ]

----------------------------------------------------------------------------
(* domain/grid.rs: Grid, one Cell per cell, and the conversions of         *)
(* application/game_state.rs                                               *)

Grid_new(width, height) ==
    [ width |-> width, height |-> height,
      cells |-> Vec([ i \in 0 .. (width * height - 1) |-> "Dead" ]) ]

Grid_dimensions(g) == << g.width, g.height >>

Grid_get_index(g, x, y) == y * g.width + x

\* Option<Cell>: "None" outside the grid
Grid_get(g, x, y) ==
    IF x < g.width /\ y < g.height THEN g.cells[Grid_get_index(g, x, y)] ELSE "None"

\* a count that takes the cells beyond the edges as dead
Grid_count_live_neighbors_bounded(g, x, y) ==
    Cardinality({ d \in Offsets :
        /\ x + d[1] >= 0
        /\ y + d[2] >= 0
        /\ Grid_get(g, x + d[1], y + d[2]) = "Alive" })

Grid_count_live_neighbors(g, x, y) ==
    LET w == g.width
        h == g.height
    IN  Cardinality({ d \in Offsets :
            LET nx == RustRem(RustRem(x + d[1], w) + w, w)
                ny == RustRem(RustRem(y + d[2], h) + h, h)
            IN  Grid_get(g, nx, ny) = "Alive" })

\* the cells are collected row by row: cell (x, y) is element y * width + x
Grid_evolve(g, rule) ==
    [ g EXCEPT !.cells =
        Vec([ i \in DOMAIN g.cells |->
            LET x == i % g.width
                y == i \div g.width
            IN  Rule_evolve(rule, Grid_get(g, x, y), Grid_count_live_neighbors(g, x, y)) ]) ]

\* GameState::bitgrid_to_grid: grid.set(x, y, Cell::Alive) on a new Grid for
\* every x < w, y < h with bg.get(x, y)
bitgrid_to_grid(bg) ==
    LET d == BitGrid_dimensions(bg)
    IN  [ Grid_new(d[1], d[2]) EXCEPT !.cells =
            Vec([ i \in 0 .. (d[1] * d[2] - 1) |->
                IF BitGrid_get(bg, i % d[1], i \div d[1]) THEN "Alive" ELSE "Dead" ]) ]

\* GameState::grid_to_bitgrid: bg.set(x, y, true) on a new BitGrid for every
\* x < w, y < h with g.get(x, y) == Some(Cell::Alive)
grid_to_bitgrid(g) ==
    LET d == Grid_dimensions(g)
        cw == CeilDiv64(d[1])
    IN  [ BitGrid_new(d[1], d[2]) EXCEPT !.chunks =
            Vec([ i \in 0 .. (cw * d[2] - 1) |->
                { b \in Lanes :
                    /\ 64 * (i % cw) + b < d[1]
                    /\ Grid_get(g, 64 * (i % cw) + b, i \div cw) = "Alive" } ]) ]

----------------------------------------------------------------------------
(* domain/simd_life.rs: whole-grid evolution                               *)

\* edge bits with the two sides exchanged: `left` from bit 63 of the
\* previous word, `right` from bit 0 of the next word
get_edge_bits_exchanged(g, chunk_x, y, chunk_width, height) ==
    LET ya == IF y > 0 THEN y - 1 ELSE height - 1
        yb == IF y + 1 < height THEN y + 1 ELSE 0
        next_chunk_x == IF chunk_x + 1 < chunk_width THEN chunk_x + 1 ELSE 0
        prev_chunk_x == IF chunk_x > 0 THEN chunk_x - 1 ELSE chunk_width - 1
    IN  << 63 \in BitGrid_get_chunk(g, prev_chunk_x, ya),
           0 \in BitGrid_get_chunk(g, next_chunk_x, ya),
           63 \in BitGrid_get_chunk(g, prev_chunk_x, y),
           0 \in BitGrid_get_chunk(g, next_chunk_x, y),
           63 \in BitGrid_get_chunk(g, prev_chunk_x, yb),
           0 \in BitGrid_get_chunk(g, next_chunk_x, yb) >>

\* returns <<left_above, right_above, left_current, right_current,
\*           left_below, right_below>>
get_edge_bits(g, chunk_x, y, chunk_width, height) ==
    LET ya == IF y > 0 THEN y - 1 ELSE height - 1
        yb == IF y + 1 < height THEN y + 1 ELSE 0
        next_chunk_x == IF chunk_x + 1 < chunk_width THEN chunk_x + 1 ELSE 0
        prev_chunk_x == IF chunk_x > 0 THEN chunk_x - 1 ELSE chunk_width - 1
    IN  << 0 \in BitGrid_get_chunk(g, next_chunk_x, ya),
           63 \in BitGrid_get_chunk(g, prev_chunk_x, ya),
           0 \in BitGrid_get_chunk(g, next_chunk_x, y),
           63 \in BitGrid_get_chunk(g, prev_chunk_x, y),
           0 \in BitGrid_get_chunk(g, next_chunk_x, yb),
           63 \in BitGrid_get_chunk(g, prev_chunk_x, yb) >>

\* the loop body shared by evolve_simd and evolve_simd_parallel: the next
\* word at (chunk_x, y)
simd_next_chunk(g, lookup, chunk_x, y, chunk_width, height) ==
    LET ya == IF y > 0 THEN y - 1 ELSE height - 1
        yb == IF y + 1 < height THEN y + 1 ELSE 0
        above == BitGrid_get_chunk(g, chunk_x, ya)
        current == BitGrid_get_chunk(g, chunk_x, y)
        below == BitGrid_get_chunk(g, chunk_x, yb)
        e == get_edge_bits(g, chunk_x, y, chunk_width, height)
    IN  compute_next_chunk_with_rule(above, current, below,
                                     e[1], e[2], e[3], e[4], e[5], e[6], lookup)

evolve_simd(g, rule) ==
    LET width == g.width
        height == g.height
        chunk_width == CeilDiv64(width)
        lookup == build_rule_lookup(rule)
    IN  [ BitGrid_new(width, height) EXCEPT !.chunks =
            Vec([ i \in 0 .. (chunk_width * height - 1) |->
                simd_next_chunk(g, lookup, i % chunk_width, i \div chunk_width,
                                chunk_width, height) ]) ]

----------------------------------------------------------------------------
(* domain/temporal_blocking.rs                                             *)

TILE_SIZE == 256
GENERATIONS_PER_TILE == 4
HALO_SIZE == GENERATIONS_PER_TILE

LocalTile_new(width, height) ==
    [ width |-> width, height |-> height, chunk_width |-> CeilDiv64(width),
      data |-> Vec([ i \in 0 .. (CeilDiv64(width) * height - 1) |-> {} ]) ]

LocalTile_get(t, x, y) ==
    IF x >= t.width \/ y >= t.height THEN FALSE
    ELSE (x % 64) \in t.data[y * t.chunk_width + (x \div 64)]

LocalTile_get_chunk(t, chunk_x, y) ==
    IF chunk_x >= t.chunk_width \/ y >= t.height THEN {}
    ELSE t.data[y * t.chunk_width + chunk_x]

\* the word written by dest.set_chunk(chunk_x, y, ..) in LocalTile::evolve_into
evolve_into_chunk(t, lookup, chunk_x, y) ==
    LET ya == IF y > 0 THEN y - 1 ELSE 0
        yb == IF y + 1 < t.height THEN y + 1 ELSE 0
        above == IF y > 0 THEN LocalTile_get_chunk(t, chunk_x, ya) ELSE {}
        current == LocalTile_get_chunk(t, chunk_x, y)
        below == IF y + 1 < t.height THEN LocalTile_get_chunk(t, chunk_x, yb) ELSE {}
        has_left == chunk_x > 0
        left_above == has_left /\ 63 \in LocalTile_get_chunk(t, chunk_x - 1, ya) /\ y > 0
        left_current == has_left /\ 63 \in LocalTile_get_chunk(t, chunk_x - 1, y)
        left_below == has_left /\ 63 \in LocalTile_get_chunk(t, chunk_x - 1, yb)
                               /\ y + 1 < t.height
        has_right == chunk_x + 1 < t.chunk_width
        right_above == has_right /\ 0 \in LocalTile_get_chunk(t, chunk_x + 1, ya) /\ y > 0
        right_current == has_right /\ 0 \in LocalTile_get_chunk(t, chunk_x + 1, y)
        right_below == has_right /\ 0 \in LocalTile_get_chunk(t, chunk_x + 1, yb)
                                 /\ y + 1 < t.height
    IN  compute_next_chunk_with_rule(above, current, below,
                                     left_above, right_above,
                                     left_current, right_current,
                                     left_below, right_below, lookup)

\* dest after self.evolve_into(&mut dest, lookup): every word of dest is
\* overwritten
LocalTile_evolve_into(t, lookup) ==
    [ t EXCEPT !.data =
        Vec([ i \in DOMAIN t.data |->
            evolve_into_chunk(t, lookup, i % t.chunk_width, i \div t.chunk_width) ]) ]

RECURSIVE evolve_tile_n_gens(_, _, _)
evolve_tile_n_gens(tile, generations, lookup) ==
    IF generations = 0 THEN tile
    ELSE evolve_tile_n_gens(LocalTile_evolve_into(tile, lookup), generations - 1, lookup)

\* the word copy without the mask of the last word of a tile row
copy_to_local_tile_fast_unmasked(g, start_x, start_y, width, height) ==
    LET cw == CeilDiv64(width)
    IN  [ LocalTile_new(width, height) EXCEPT !.data =
            Vec([ i \in 0 .. (cw * height - 1) |->
                LET chunk_x == i % cw
                    ly == i \div cw
                    tile_bit_offset == chunk_x * 64
                    val == BitGrid_get_word64(g, start_x + tile_bit_offset, start_y + ly)
                IN  IF tile_bit_offset >= width THEN {} ELSE val ]) ]

copy_to_local_tile_fast(g, start_x, start_y, width, height) ==
    LET cw == CeilDiv64(width)
    IN  [ LocalTile_new(width, height) EXCEPT !.data =
            Vec([ i \in 0 .. (cw * height - 1) |->
                LET chunk_x == i % cw
                    ly == i \div cw
                    tile_bit_offset == chunk_x * 64
                    val == BitGrid_get_word64(g, start_x + tile_bit_offset, start_y + ly)
                    bits_remaining == Max(0, width - tile_bit_offset)
                IN  IF tile_bit_offset >= width THEN {}
                    ELSE IF bits_remaining < 64
                         THEN BitAnd(val, LowMask(bits_remaining))
                         ELSE val ]) ]

\* the slow path of copy_to_local_tile: tile.set(lx, ly, true) for every
\* live grid.get((tile_x + lx) % grid_width, (tile_y + ly) % grid_height)
copy_to_local_tile_slow(g, tile_x, tile_y, local_width, local_height) ==
    LET grid_width == g.width
        grid_height == g.height
        cw == CeilDiv64(local_width)
    IN  [ LocalTile_new(local_width, local_height) EXCEPT !.data =
            Vec([ i \in 0 .. (cw * local_height - 1) |->
                { b \in Lanes :
                    LET lx == 64 * (i % cw) + b
                        ly == i \div cw
                    IN  lx < local_width
                        /\ BitGrid_get(g, (tile_x + lx) % grid_width,
                                          (tile_y + ly) % grid_height) } ]) ]

copy_to_local_tile(g, tile_x, tile_y, local_width, local_height) ==
    IF tile_x + local_width <= g.width /\ tile_y + local_height <= g.height
    THEN copy_to_local_tile_fast(g, tile_x, tile_y, local_width, local_height)
    ELSE copy_to_local_tile_slow(g, tile_x, tile_y, local_width, local_height)

get_tile_u64_unaligned(t, x, y) ==
    LET chunk_idx == y * t.chunk_width + (x \div 64)
        bit_offset == x % 64
        len == t.chunk_width * t.height
    IN  IF bit_offset = 0 THEN t.data[chunk_idx]
        ELSE BitOr(Shr(t.data[chunk_idx], bit_offset),
                   IF chunk_idx + 1 < len
                   THEN Shl(t.data[chunk_idx + 1], 64 - bit_offset) ELSE {})

\* the word scatter without the mask of the last word of a row
fast_scatter_calls_unmasked(t, start_x, start_y, width, height, halo) ==
    LET per_row == CeilDiv64(width)
    IN  Vec([ k \in 1 .. (per_row * height) |->
            LET ly == (k - 1) \div per_row
                bits_processed == 64 * ((k - 1) % per_row)
                tile_val == get_tile_u64_unaligned(t, halo + bits_processed, ly + halo)
            IN  [ op |-> "set_word64_or", x |-> start_x + bits_processed,
                  y |-> start_y + ly, val |-> tile_val ] ])

\* The calls `grid.set_word64_or(start_x + bits_processed, global_y, val)`
\* issued by copy_active_cells_to_grid_fast, in program order.
fast_scatter_calls(t, start_x, start_y, width, height, halo) ==
    LET per_row == CeilDiv64(width)
    IN  Vec([ k \in 1 .. (per_row * height) |->
            LET ly == (k - 1) \div per_row
                bits_processed == 64 * ((k - 1) % per_row)
                tile_val == get_tile_u64_unaligned(t, halo + bits_processed, ly + halo)
                remaining == width - bits_processed
                val == IF remaining < 64 THEN BitAnd(tile_val, LowMask(remaining))
                       ELSE tile_val
            IN  [ op |-> "set_word64_or", x |-> start_x + bits_processed,
                  y |-> start_y + ly, val |-> val ] ])

\* The calls `grid.set(gx, gy, true)` issued by the slow path of
\* copy_active_cells_to_grid from cell number k (row-major) on.
RECURSIVE slow_scatter_calls(_, _, _, _, _, _, _, _, _)
slow_scatter_calls(t, grid_width, grid_height, tile_x, tile_y, inner_width, inner_height, halo, k) ==
    IF k >= inner_width * inner_height THEN << >>
    ELSE LET lx == k % inner_width
             ly == k \div inner_width
         IN  (IF LocalTile_get(t, lx + halo, ly + halo)
              THEN << [ op |-> "set", x |-> (tile_x + lx) % grid_width,
                        y |-> (tile_y + ly) % grid_height, val |-> {} ] >>
              ELSE << >>)
             \o slow_scatter_calls(t, grid_width, grid_height, tile_x, tile_y,
                                   inner_width, inner_height, halo, k + 1)

\* the mutating calls copy_active_cells_to_grid makes on the output grid
scatter_calls(t, grid_width, grid_height, tile_x, tile_y, inner_width, inner_height, halo) ==
    IF tile_x + inner_width <= grid_width /\ tile_y + inner_height <= grid_height
    THEN fast_scatter_calls(t, tile_x, tile_y, inner_width, inner_height, halo)
    ELSE slow_scatter_calls(t, grid_width, grid_height, tile_x, tile_y,
                            inner_width, inner_height, halo, 0)

apply_call(g, c) ==
    IF c.op = "set_word64_or" THEN BitGrid_set_word64_or(g, c.x, c.y, c.val)
    ELSE BitGrid_set(g, c.x, c.y, TRUE)

\* the grid after calls[lo], ..., calls[hi], made in this order (the
\* comparison has the first half evaluated before the second half starts)
RECURSIVE apply_calls_between(_, _, _, _)
apply_calls_between(g, calls, lo, hi) ==
    IF lo > hi THEN g
    ELSE IF lo = hi THEN apply_call(g, calls[lo])
    ELSE LET mid == (lo + hi) \div 2
             first == apply_calls_between(g, calls, lo, mid)
         IN  IF first = g THEN apply_calls_between(g, calls, mid + 1, hi)
             ELSE apply_calls_between(first, calls, mid + 1, hi)

apply_calls(g, calls) == apply_calls_between(g, calls, 1, Len(calls))

copy_active_cells_to_grid(t, g, tile_x, tile_y, inner_width, inner_height, halo) ==
    apply_calls(g, scatter_calls(t, g.width, g.height, tile_x, tile_y,
                                 inner_width, inner_height, halo))

\* indices of the stored words a call writes
call_targets(g, c) ==
    LET chunk_idx == c.y * g.chunk_width + (c.x \div 64)
        len == g.chunk_width * g.height
    IN  IF c.op = "set_word64_or"
        THEN IF chunk_idx >= len THEN {}
             ELSE IF c.x % 64 = 0 THEN {chunk_idx}
             ELSE {chunk_idx} \cup (IF chunk_idx + 1 < len THEN {chunk_idx + 1} ELSE {})
        ELSE IF c.x >= g.width \/ c.y >= g.height THEN {} ELSE {chunk_idx}

\* (2^64) mod d, computed without leaving 32-bit integers
Pow2_64_Mod(d) ==
    LET p16 == 65536 % d
        p32 == (p16 * p16) % d
    IN  (p32 * p32) % d

\* `(tile_c + dim - HALO_SIZE) % dim` on usize: the subtraction overflows when
\* tile_c + dim < HALO_SIZE; a release build wraps modulo 2^64 (a debug build
\* panics, see underflows)
halo_start(tile_c, dim) ==
    IF tile_c + dim >= HALO_SIZE THEN (tile_c + dim - HALO_SIZE) % dim
    ELSE (Pow2_64_Mod(dim) + ((tile_c + dim + HALO_SIZE * dim - HALO_SIZE) % dim)) % dim

num_tiles(n) == (n + TILE_SIZE - 1) \div TILE_SIZE

\* tiles laid out with a stride that leaves neighbouring interiors
\* overlapping by the two halos
tile_geom_overlapping(width, height, tile_idx) ==
    LET num_tiles_x == num_tiles(width)
        tile_stride == TILE_SIZE - 2 * HALO_SIZE
        tile_x == (tile_idx % num_tiles_x) * tile_stride
        tile_y == (tile_idx \div num_tiles_x) * tile_stride
        actual_width == Min(TILE_SIZE, width - tile_x)
        actual_height == Min(TILE_SIZE, height - tile_y)
    IN  [ tile_x |-> tile_x, tile_y |-> tile_y,
          actual_width |-> actual_width, actual_height |-> actual_height,
          local_width |-> actual_width + 2 * HALO_SIZE,
          local_height |-> actual_height + 2 * HALO_SIZE,
          start_x |-> halo_start(tile_x, width),
          start_y |-> halo_start(tile_y, height) ]

\* the geometry of tile number tile_idx (row-major over the tile grid)
tile_geom(width, height, tile_idx) ==
    LET num_tiles_x == num_tiles(width)
        tile_x == (tile_idx % num_tiles_x) * TILE_SIZE
        tile_y == (tile_idx \div num_tiles_x) * TILE_SIZE
        actual_width == Min(TILE_SIZE, width - tile_x)
        actual_height == Min(TILE_SIZE, height - tile_y)
    IN  [ tile_x |-> tile_x, tile_y |-> tile_y,
          actual_width |-> actual_width, actual_height |-> actual_height,
          local_width |-> actual_width + 2 * HALO_SIZE,
          local_height |-> actual_height + 2 * HALO_SIZE,
          start_x |-> halo_start(tile_x, width),
          start_y |-> halo_start(tile_y, height) ]

\* gather + step of one tile (the body of the tile loop up to the scatter)
tile_task(g, lookup, generations, tile_idx) ==
    LET t == tile_geom(g.width, g.height, tile_idx)
        local == copy_to_local_tile(g, t.start_x, t.start_y, t.local_width, t.local_height)
    IN  evolve_tile_n_gens(local, generations, lookup)

\* `result` after the scatter of tile number tile_idx
tile_scatter(result, local, tile_idx) ==
    LET t == tile_geom(result.width, result.height, tile_idx)
    IN  copy_active_cells_to_grid(local, result, t.tile_x, t.tile_y,
                                  t.actual_width, t.actual_height, HALO_SIZE)

RECURSIVE tb_from(_, _, _, _, _)
tb_from(g, lookup, generations, result, tile_idx) ==
    IF tile_idx >= num_tiles(g.width) * num_tiles(g.height) THEN result
    ELSE tb_from(g, lookup, generations,
                 tile_scatter(result, tile_task(g, lookup, generations, tile_idx), tile_idx),
                 tile_idx + 1)

\* evolve_temporal_blocking in a build where it does not panic
evolve_temporal_blocking(g, rule, generations) ==
    tb_from(g, build_rule_lookup(rule), generations, BitGrid_new(g.width, g.height), 0)

\* evolve_temporal_blocking_parallel in a build where it does not panic:
\* collect() returns the tiles in index order and the scatter loop is the
\* serial one
evolve_temporal_blocking_parallel(g, rule, generations) ==
    tb_from(g, build_rule_lookup(rule), generations, BitGrid_new(g.width, g.height), 0)

----------------------------------------------------------------------------
(* The engine driven by a client: one BitGrid, mutated through set, clear  *)
(* and randomize, and handed by shared reference to one evolution call at  *)
(* a time.  The serial entry points run to completion in one step; the     *)
(* rayon entry points run one task per step, in any order.                 *)

VARIABLES grid, last, call, pending, row_results, output_chunks, tile_results,
          result, scattered, word_writers, kernel

vars == << grid, last, call, pending, row_results, output_chunks, tile_results,
           result, scattered, word_writers, kernel >>

\* bound on the number of set bits of an input grid
MaxAlive == 2

\* grid sizes: below the halo size, one full word, two words with a partial
\* last word, two tiles with a partial last word
Dims == { << 3, 3 >>, << 64, 3 >>, << 70, 4 >>, << 300, 4 >> }

\* the rows and the columns the client paints
PaintRows == { 1 }
PaintCols(g) == { x \in {0, 59, 60, 63, 64, g.width - 1} : x < g.width }
\* coordinates outside the grid, near and far
OutCols(g) == { g.width, g.width + 64, g.width + 1000000 }
OutRows(g) == { g.height, g.height + 1000000 }
\* stored bits past the declared width (first and last padding bit of a row)
PadCols(g) == { x \in { g.width, 64 * g.chunk_width - 1 } : x >= g.width }

Generations == { 0, 1, GENERATIONS_PER_TILE }

NoGrid == BitGrid_new(0, 0)
NoCall == [ name |-> "none", rule |-> "Conway", generations |-> 0, status |-> "idle" ]
\* the client's latest operation on the grid
Op(op, x, y, alive) == [ op |-> op, x |-> x, y |-> y, alive |-> alive ]
NoKernel == [ phase |-> "none" ]

Idle == call.status = "idle"
Running(name) == call.name = name /\ call.status = "running"
Returned(name) == call.name = name /\ call.status = "returned"

Init ==
    /\ \E d \in Dims : grid = BitGrid_new(d[1], d[2])
    /\ last = Op("new", 0, 0, FALSE)
    /\ call = NoCall
    /\ pending = {}
    /\ row_results = << >>
    /\ output_chunks = << >>
    /\ tile_results = << >>
    /\ result = NoGrid
    /\ scattered = 0
    /\ word_writers = << >>
    /\ kernel = NoKernel

CallVarsUnchanged ==
    UNCHANGED << call, pending, row_results, output_chunks, tile_results,
                 result, scattered, word_writers, kernel >>

\* grid.set(x, y, alive)
SetCell(x, y, alive) ==
    /\ Idle
    /\ alive /\ x < grid.width /\ y < grid.height /\ ~BitGrid_get(grid, x, y)
          => BitGrid_count_alive(grid) < MaxAlive
    /\ grid' = BitGrid_set(grid, x, y, alive)
    /\ CallVarsUnchanged

\* grid.clear()
ClearGrid ==
    /\ Idle
    /\ grid' = BitGrid_clear(grid)
    /\ CallVarsUnchanged

\* the word with exactly the stored bits of `cells` (a set of <<x, y>>) that
\* fall into word i
WordOf(g, cells, i) ==
    { b \in Lanes : << 64 * (i % g.chunk_width) + b, i \div g.chunk_width >> \in cells }

\* grid.randomize(): every stored word, padding bits included, receives
\* rng.random() & rng.random(); the outcomes drawn here are the fills with
\* at most MaxAlive bits among the painted and the padding positions
RandomizeGrid ==
    /\ Idle
    /\ \E cells \in SUBSET ((PaintCols(grid) \cup PadCols(grid)) \X PaintRows) :
          /\ Cardinality(cells) <= MaxAlive
          /\ grid' = [ grid EXCEPT !.chunks =
                         Vec([ i \in DOMAIN grid.chunks |-> WordOf(grid, cells, i) ]) ]
    /\ CallVarsUnchanged

Set(x, y, alive) == SetCell(x, y, alive) /\ UNCHANGED last
Clear == ClearGrid /\ UNCHANGED last
Randomize == RandomizeGrid /\ UNCHANGED last

StartCall(name, rule, generations) ==
    call' = [ name |-> name, rule |-> rule, generations |-> generations,
              status |-> "running" ]

\* grid.evolve(rule)
Evolve(rule) ==
    /\ Idle
    /\ call' = [ name |-> "evolve", rule |-> rule, generations |-> 1,
                 status |-> "returned" ]
    /\ result' = BitGrid_evolve(grid, rule)
    /\ UNCHANGED << kernel, grid, last, pending, row_results, output_chunks, tile_results,
                    scattered, word_writers >>

\* the pairs (x, true) for the columns in `xs`, in ascending order of x
RECURSIVE ascending_cells(_)
ascending_cells(xs) ==
    IF xs = {} THEN << >>
    ELSE LET m == CHOOSE x \in xs : \A z \in xs : x <= z
         IN  << << m, TRUE >> >> \o ascending_cells(xs \ {m})

\* a row task that pushes the cells that are alive now
row_cells_current(g, rule, y) ==
    ascending_cells({ x \in 0 .. (g.width - 1) : BitGrid_get(g, x, y) })

\* the Vec<(usize, bool)> the task of row y of evolve_parallel returns: one
\* push per x in 0..width whose next state is Alive
row_cells(g, rule, y) ==
    ascending_cells({ x \in 0 .. (g.width - 1) : NextCellAlive(g, rule, x, y) })

\* grid.evolve_parallel(rule): `next` is allocated and the row tasks are handed
\* to the pool
EvolveParallelStart(rule) ==
    /\ Idle
    /\ StartCall("evolve_parallel", rule, 1)
    /\ result' = BitGrid_new(grid.width, grid.height)
    /\ pending' = 0 .. (grid.height - 1)
    /\ row_results' = << >>
    /\ UNCHANGED << kernel, grid, last, output_chunks, tile_results, scattered, word_writers >>

\* the task of row y
EvolveParallelRow(y) ==
    /\ Running("evolve_parallel")
    /\ y \in pending
    /\ pending' = pending \ {y}
    /\ row_results' = row_results @@ (y :> row_cells(grid, call.rule, y))
    /\ UNCHANGED << kernel, grid, last, call, output_chunks, tile_results, result, scattered,
                    word_writers >>

RECURSIVE apply_row(_, _, _)
apply_row(g, y, row) ==
    IF row = << >> THEN g
    ELSE apply_row(BitGrid_set(g, Head(row)[1], y, TRUE), y, Tail(row))

RECURSIVE apply_rows_from(_, _, _)
apply_rows_from(g, rows, y) ==
    IF y \notin DOMAIN rows THEN g
    ELSE apply_rows_from(apply_row(g, y, rows[y]), rows, y + 1)

\* collect() has returned: the rows are applied in order and `next` returned
EvolveParallelApply ==
    /\ Running("evolve_parallel")
    /\ pending = {}
    /\ result' = apply_rows_from(result, row_results, 0)
    /\ call' = [ call EXCEPT !.status = "returned" ]
    /\ UNCHANGED << kernel, grid, last, pending, row_results, output_chunks, tile_results,
                    scattered, word_writers >>

\* an evolve_simd that stores the next generation into its argument
EvolveSimd_in_place(rule) ==
    /\ Idle
    /\ call' = [ name |-> "evolve_simd", rule |-> rule, generations |-> 1,
                 status |-> "returned" ]
    /\ result' = evolve_simd(grid, rule)
    /\ grid' = evolve_simd(grid, rule)
    /\ UNCHANGED << kernel, last, pending, row_results, output_chunks, tile_results,
                    scattered, word_writers >>

\* simd_life::evolve_simd(&grid, rule)
EvolveSimd(rule) ==
    /\ Idle
    /\ call' = [ name |-> "evolve_simd", rule |-> rule, generations |-> 1,
                 status |-> "returned" ]
    /\ result' = evolve_simd(grid, rule)
    /\ UNCHANGED << kernel, grid, last, pending, row_results, output_chunks, tile_results,
                    scattered, word_writers >>

\* simd_life::evolve_simd_parallel(&grid, rule): the zeroed output buffer is
\* allocated and split into one mutable slice per row
EvolveSimdParallelStart(rule) ==
    /\ Idle
    /\ StartCall("evolve_simd_parallel", rule, 1)
    /\ output_chunks' = Vec([ i \in 0 .. (grid.height * CeilDiv64(grid.width) - 1) |-> {} ])
    /\ pending' = 0 .. (grid.height - 1)
    /\ UNCHANGED << kernel, grid, last, row_results, tile_results, result, scattered, word_writers >>

\* a row task whose slice reaches one word into the next row
simd_parallel_row_overlapping(g, lookup, output, y) ==
    LET chunk_width == CeilDiv64(g.width)
    IN  Vec([ i \in DOMAIN output |->
                IF i \div chunk_width = y \/ i = (y + 1) * chunk_width
                THEN simd_next_chunk(g, lookup, i % chunk_width, y, chunk_width, g.height)
                ELSE output[i] ])

\* output_chunks after the closure of row y has filled its slice row_output
simd_parallel_row(g, lookup, output, y) ==
    LET chunk_width == CeilDiv64(g.width)
    IN  Vec([ i \in DOMAIN output |->
                IF i \div chunk_width = y
                THEN simd_next_chunk(g, lookup, i % chunk_width, y, chunk_width, g.height)
                ELSE output[i] ])

EvolveSimdParallelRow(y) ==
    /\ Running("evolve_simd_parallel")
    /\ y \in pending
    /\ pending' = pending \ {y}
    /\ output_chunks' = simd_parallel_row(grid, build_rule_lookup(call.rule),
                                          output_chunks, y)
    /\ UNCHANGED << kernel, grid, last, call, row_results, tile_results, result, scattered,
                    word_writers >>

\* for_each has returned: the buffer is adopted by BitGrid::from_chunks
EvolveSimdParallelFinish ==
    /\ Running("evolve_simd_parallel")
    /\ pending = {}
    /\ result' = BitGrid_from_chunks(grid.width, grid.height, output_chunks)
    /\ call' = [ call EXCEPT !.status = "returned" ]
    /\ UNCHANGED << kernel, grid, last, pending, row_results, output_chunks, tile_results,
                    scattered, word_writers >>

\* the stored words of `g` written by a sequence of calls, added to the
\* record `writers` of which tile wrote which word
note_writers(writers, g, calls, tile_idx) ==
    LET targets == UNION { call_targets(g, calls[k]) : k \in DOMAIN calls }
    IN  [ i \in DOMAIN writers |->
            IF i \in targets THEN writers[i] \cup {tile_idx} ELSE writers[i] ]

tile_scatter_calls(g, local, tile_idx) ==
    LET t == tile_geom(g.width, g.height, tile_idx)
    IN  scatter_calls(local, g.width, g.height, t.tile_x, t.tile_y,
                      t.actual_width, t.actual_height, HALO_SIZE)

total_tiles(g) == num_tiles(g.width) * num_tiles(g.height)

\* the usize subtraction in start_x / start_y underflows for the first tile
underflows(g) ==
    g.width >= 1 /\ g.height >= 1 /\ (g.width < HALO_SIZE \/ g.height < HALO_SIZE)

\* temporal_blocking::evolve_temporal_blocking(&grid, rule, generations):
\* `result` is allocated zeroed.  Where the halo offset underflows, a build
\* with overflow checks panics and a build without them wraps.
TemporalBlockingStart(rule, generations) ==
    /\ Idle
    /\ \/ /\ StartCall("evolve_temporal_blocking", rule, generations)
          /\ result' = BitGrid_new(grid.width, grid.height)
          /\ word_writers' = Vec([ i \in DOMAIN grid.chunks |-> {} ])
       \/ /\ underflows(grid)
          /\ call' = [ name |-> "evolve_temporal_blocking", rule |-> rule,
                       generations |-> generations, status |-> "panicked" ]
          /\ UNCHANGED << result, word_writers >>
    /\ scattered' = 0
    /\ UNCHANGED << kernel, grid, last, pending, row_results, output_chunks, tile_results >>

\* one iteration of the tile loop: gather, step, scatter
TemporalBlockingTile ==
    /\ Running("evolve_temporal_blocking")
    /\ scattered < total_tiles(grid)
    /\ LET local == tile_task(grid, build_rule_lookup(call.rule), call.generations,
                              scattered)
       IN  /\ result' = tile_scatter(result, local, scattered)
           /\ word_writers' = Vec(note_writers(word_writers, result,
                                     tile_scatter_calls(result, local, scattered),
                                     scattered))
    /\ scattered' = scattered + 1
    /\ call' = [ call EXCEPT !.status =
                   IF scattered + 1 = total_tiles(grid) THEN "returned" ELSE @ ]
    /\ UNCHANGED << kernel, grid, last, pending, row_results, output_chunks, tile_results >>

\* temporal_blocking::evolve_temporal_blocking_parallel(&grid, rule,
\* generations): the tile tasks are handed to the pool
TemporalBlockingParallelStart(rule, generations) ==
    /\ Idle
    /\ \/ /\ StartCall("evolve_temporal_blocking_parallel", rule, generations)
          /\ pending' = 0 .. (total_tiles(grid) - 1)
       \/ /\ underflows(grid)
          /\ call' = [ name |-> "evolve_temporal_blocking_parallel", rule |-> rule,
                       generations |-> generations, status |-> "panicked" ]
          /\ UNCHANGED pending
    /\ tile_results' = << >>
    /\ scattered' = 0
    /\ UNCHANGED << kernel, grid, last, row_results, output_chunks, result, word_writers >>

\* the gather + step task of tile tile_idx
TemporalBlockingParallelTask(tile_idx) ==
    /\ Running("evolve_temporal_blocking_parallel")
    /\ tile_idx \in pending
    /\ pending' = pending \ {tile_idx}
    /\ tile_results' = tile_results @@
          (tile_idx :> tile_task(grid, build_rule_lookup(call.rule),
                                 call.generations, tile_idx))
    /\ UNCHANGED << kernel, grid, last, call, row_results, output_chunks, result, scattered,
                    word_writers >>

\* a scatter that waits only for the tile it is about to write
next_tile_collected == scattered \in DOMAIN tile_results

\* collect() returns once every tile task has finished
all_collected == pending = {}

\* the sequential scatter loop over tile_results; `result` is allocated zeroed
\* before its first iteration
TemporalBlockingParallelScatter ==
    /\ Running("evolve_temporal_blocking_parallel")
    /\ all_collected
    /\ scattered < total_tiles(grid)
    /\ LET out == IF scattered = 0 THEN BitGrid_new(grid.width, grid.height) ELSE result
           ww == IF scattered = 0 THEN Vec([ i \in DOMAIN grid.chunks |-> {} ])
                 ELSE word_writers
           local == tile_results[scattered]
       IN  /\ result' = tile_scatter(out, local, scattered)
           /\ word_writers' = Vec(note_writers(ww, out,
                                     tile_scatter_calls(out, local, scattered),
                                     scattered))
    /\ scattered' = scattered + 1
    /\ call' = [ call EXCEPT !.status =
                   IF scattered + 1 = total_tiles(grid) THEN "returned" ELSE @ ]
    /\ UNCHANGED << kernel, grid, last, pending, row_results, output_chunks, tile_results >>

\* the caller drops the returned grid (or has observed the panic)
Finish ==
    /\ call.status \in {"returned", "panicked"}
    /\ call' = NoCall
    /\ pending' = {}
    /\ row_results' = << >>
    /\ output_chunks' = << >>
    /\ tile_results' = << >>
    /\ result' = NoGrid
    /\ scattered' = 0
    /\ word_writers' = << >>
    /\ UNCHANGED << kernel, grid, last >>

Next ==
    \/ \E x \in PaintCols(grid) \cup OutCols(grid),
          y \in PaintRows \cup OutRows(grid), alive \in BOOLEAN : Set(x, y, alive)
    \/ Clear
    \/ Randomize
    \/ \E rule \in Rules : Evolve(rule)
    \/ \E rule \in Rules : EvolveParallelStart(rule)
    \/ \E y \in pending : EvolveParallelRow(y)
    \/ EvolveParallelApply
    \/ \E rule \in Rules : EvolveSimd(rule)
    \/ \E rule \in Rules : EvolveSimdParallelStart(rule)
    \/ \E y \in pending : EvolveSimdParallelRow(y)
    \/ EvolveSimdParallelFinish
    \/ \E rule \in Rules, generations \in Generations :
          TemporalBlockingStart(rule, generations)
    \/ TemporalBlockingTile
    \/ \E rule \in Rules, generations \in Generations :
          TemporalBlockingParallelStart(rule, generations)
    \/ \E tile_idx \in pending : TemporalBlockingParallelTask(tile_idx)
    \/ TemporalBlockingParallelScatter
    \/ Finish

Spec == Init /\ [][Next]_vars

----------------------------------------------------------------------------
(* The word-parallel step kernel on its own: three words and six boundary  *)
(* bits go through compute_neighbor_counts and then, with the table of a   *)
(* rule, through apply_rule_lookup (compute_next_chunk_with_rule).         *)

\* lanes the input words may have set: the low end of a word (whose lane 0
\* takes its x-1 neighbours from the right_bit_* arguments), the middle and
\* the high end (whose lane 63 takes its x+1 neighbours from left_bit_*)
KernelLaneSets == { {0, 1}, {31, 32, 33}, {62, 63} }

KernelInit ==
    /\ grid = NoGrid
    /\ last = Op("new", 0, 0, FALSE)
    /\ call = NoCall
    /\ pending = {}
    /\ row_results = << >>
    /\ output_chunks = << >>
    /\ tile_results = << >>
    /\ result = NoGrid
    /\ scattered = 0
    /\ word_writers = << >>
    /\ \E L \in KernelLaneSets :
         \E above \in SUBSET L, current \in SUBSET L, below \in SUBSET L,
            bits \in [ 1 .. 6 -> BOOLEAN ] :
              /\ L = {31, 32, 33} => \A k \in 1 .. 6 : ~bits[k]
              /\ kernel = [ phase |-> "input", above |-> above, current |-> current,
                            below |-> below, bits |-> bits,
                            counts |-> << >>, rule |-> "Conway", lookup |-> << >>,
                            next |-> {} ]

MainVarsUnchanged ==
    UNCHANGED << grid, last, call, pending, row_results, output_chunks,
                 tile_results, result, scattered, word_writers >>

\* compute_neighbor_counts(above, current, below, left_bit_above, ..)
KernelCount ==
    /\ kernel.phase = "input"
    /\ kernel' = [ kernel EXCEPT
         !.phase = "counted",
         !.counts = compute_neighbor_counts(kernel.above, kernel.current, kernel.below,
                        kernel.bits[1], kernel.bits[2], kernel.bits[3],
                        kernel.bits[4], kernel.bits[5], kernel.bits[6]) ]
    /\ MainVarsUnchanged

\* build_rule_lookup(rule) followed by apply_rule_lookup on the counts
KernelApply(rule) ==
    /\ kernel.phase = "counted"
    /\ LET lookup == build_rule_lookup(rule)
       IN  kernel' = [ kernel EXCEPT
             !.phase = "applied",
             !.rule = rule,
             !.lookup = lookup,
             !.next = apply_rule_lookup(kernel.current, kernel.counts[1],
                          kernel.counts[2], kernel.counts[3], kernel.counts[4],
                          lookup) ]
    /\ MainVarsUnchanged

\* compute_next_chunk_conway on the same arguments
KernelConway ==
    /\ kernel.phase = "input"
    /\ kernel' = [ kernel EXCEPT
         !.phase = "conway",
         !.next = compute_next_chunk_conway(kernel.above, kernel.current, kernel.below,
                      kernel.bits[1], kernel.bits[2], kernel.bits[3],
                      kernel.bits[4], kernel.bits[5], kernel.bits[6]) ]
    /\ MainVarsUnchanged

KernelNext ==
    \/ KernelCount
    \/ \E rule \in Rules : KernelApply(rule)
    \/ KernelConway

SpecKernel == KernelInit /\ [][KernelNext]_vars

----------------------------------------------------------------------------
(* The blocked entry points on grids of more than one tile in each         *)
(* direction.                                                              *)

\* grid sizes: two tiles side by side, two tiles one above the other, two by
\* two tiles with partial last tiles, and one below the halo size
TileDims == { << 3, 3 >>, << 300, 4 >>, << 70, 260 >>, << 300, 260 >> }
\* cells at the first column and row of the tiles
TileCells(g) == { c \in {0, TILE_SIZE} \X {0, TILE_SIZE} :
                    c[1] < g.width /\ c[2] < g.height }
TileRules == { "Conway" }
TileGenerations == { 0, 1 }

TilesInit ==
    /\ \E d \in TileDims :
         LET g == BitGrid_new(d[1], d[2])
         IN  \/ grid = g
             \/ \E c \in TileCells(g) : grid = BitGrid_set(g, c[1], c[2], TRUE)
    /\ last = Op("new", 0, 0, FALSE)
    /\ call = NoCall
    /\ pending = {}
    /\ row_results = << >>
    /\ output_chunks = << >>
    /\ tile_results = << >>
    /\ result = NoGrid
    /\ scattered = 0
    /\ word_writers = << >>
    /\ kernel = NoKernel

TilesNext ==
    \/ \E rule \in TileRules, generations \in TileGenerations :
          TemporalBlockingStart(rule, generations)
    \/ TemporalBlockingTile
    \/ \E rule \in TileRules, generations \in TileGenerations :
          TemporalBlockingParallelStart(rule, generations)
    \/ \E tile_idx \in pending : TemporalBlockingParallelTask(tile_idx)
    \/ TemporalBlockingParallelScatter
    \/ Finish

SpecTiles == TilesInit /\ [][TilesNext]_vars

----------------------------------------------------------------------------
(* The evolution paths on the two classic patterns: a grid built with new  *)
(* and set holds one horizontal blinker or one 2x2 block; the client calls *)
(* an evolution path under ConwayRule and, for a second generation, calls  *)
(* one again on the grid it got back.                                      *)

\* grid sizes: the smallest for a block, the smallest for a blinker, and two
\* words with a partial last word
PatternDims == { << 4, 4 >>, << 5, 5 >>, << 70, 5 >> }
\* columns and rows of a blinker's centre: next to the grid's edges, across
\* the boundary of the stored words (63 | 64) and across column 59 | 60
BlinkerCols(g) == { x \in {1, 60, 63, 64, g.width - 2} : 1 <= x /\ x + 1 < g.width }
BlinkerRows(g) == { y \in {1, g.height - 2} : 1 <= y /\ y + 1 < g.height }
\* columns and rows of a block's top left cell
BlockCols(g) == { x \in {0, 59, 63, g.width - 2} : x + 1 < g.width }
BlockRows(g) == { y \in {0, g.height - 2} : y + 1 < g.height }

Horizontal(cx, cy) == { << cx - 1, cy >>, << cx, cy >>, << cx + 1, cy >> }
Vertical(cx, cy) == { << cx, cy - 1 >>, << cx, cy >>, << cx, cy + 1 >> }
Block(bx, by) == { << bx, by >>, << bx + 1, by >>, << bx, by + 1 >>, << bx + 1, by + 1 >> }

\* g after grid.set(x, y, true) for every <<x, y>> of `cells`
RECURSIVE SetAll(_, _)
SetAll(g, cells) ==
    IF cells = {} THEN g
    ELSE LET c == CHOOSE c \in cells : TRUE
         IN  SetAll(BitGrid_set(g, c[1], c[2], TRUE), cells \ {c})

\* the pattern the client drew, where, and how many generations it has since
\* taken from evolution calls
Pattern(op, x, y, generation) ==
    [ op |-> op, x |-> x, y |-> y, alive |-> TRUE, generation |-> generation ]

PatternsInit ==
    /\ \E d \in PatternDims :
         LET g == BitGrid_new(d[1], d[2])
         IN  \/ \E cx \in BlinkerCols(g), cy \in BlinkerRows(g) :
                  /\ d[1] >= 5 /\ d[2] >= 5
                  /\ grid = SetAll(g, Horizontal(cx, cy))
                  /\ last = Pattern("blinker", cx, cy, 0)
             \/ \E bx \in BlockCols(g), by \in BlockRows(g) :
                  /\ grid = SetAll(g, Block(bx, by))
                  /\ last = Pattern("block", bx, by, 0)
    /\ call = NoCall
    /\ pending = {}
    /\ row_results = << >>
    /\ output_chunks = << >>
    /\ tile_results = << >>
    /\ result = NoGrid
    /\ scattered = 0
    /\ word_writers = << >>
    /\ kernel = NoKernel

\* `grid = <evolution call>(&grid, ..)`: the client replaces its grid by the
\* grid a one-generation call returned
Adopt ==
    /\ call.status = "returned"
    /\ call.generations = 1
    /\ last.generation < 2
    /\ grid' = result
    /\ last' = [ last EXCEPT !.generation = @ + 1 ]
    /\ call' = NoCall
    /\ pending' = {}
    /\ row_results' = << >>
    /\ output_chunks' = << >>
    /\ tile_results' = << >>
    /\ result' = NoGrid
    /\ scattered' = 0
    /\ word_writers' = << >>
    /\ UNCHANGED kernel

\* the `generations` a blocked call is given: up to the halo, and one more
PatternGenerations == 1 .. (GENERATIONS_PER_TILE + 1)

PatternsNext ==
    \/ Evolve("Conway")
    \/ EvolveParallelStart("Conway")
    \/ \E y \in pending : EvolveParallelRow(y)
    \/ EvolveParallelApply
    \/ EvolveSimd("Conway")
    \/ EvolveSimdParallelStart("Conway")
    \/ \E y \in pending : EvolveSimdParallelRow(y)
    \/ EvolveSimdParallelFinish
    \/ \E generations \in PatternGenerations :
          TemporalBlockingStart("Conway", generations)
    \/ TemporalBlockingTile
    \/ \E generations \in PatternGenerations :
          TemporalBlockingParallelStart("Conway", generations)
    \/ \E tile_idx \in pending : TemporalBlockingParallelTask(tile_idx)
    \/ TemporalBlockingParallelScatter
    \/ Adopt

SpecPatterns == PatternsInit /\ [][PatternsNext]_vars

----------------------------------------------------------------------------
(* Rule::evolve on its own: a rule, a cell state and a neighbour count go  *)
(* in, the next cell state comes out.                                      *)

Cells == { "Dead", "Alive" }
\* the counts BitGrid::count_neighbors can return
NeighborCounts == 0 .. Cardinality(Offsets)

RulesInit ==
    /\ grid = NoGrid
    /\ last = Op("new", 0, 0, FALSE)
    /\ call = NoCall
    /\ pending = {}
    /\ row_results = << >>
    /\ output_chunks = << >>
    /\ tile_results = << >>
    /\ result = NoGrid
    /\ scattered = 0
    /\ word_writers = << >>
    /\ \E rule \in Rules, current \in Cells, neighbors \in NeighborCounts :
         kernel = [ phase |-> "rule_input", rule |-> rule, current |-> current,
                    neighbors |-> neighbors, next_state |-> "Dead" ]

\* rule.evolve(current, neighbors)
RuleEvolve ==
    /\ kernel.phase = "rule_input"
    /\ kernel' = [ kernel EXCEPT
         !.phase = "rule_output",
         !.next_state = Rule_evolve(kernel.rule, kernel.current, kernel.neighbors) ]
    /\ MainVarsUnchanged

RulesNext == RuleEvolve

SpecRules == RulesInit /\ [][RulesNext]_vars

----------------------------------------------------------------------------
(* LocalTile::evolve_into on its own: a source tile and a lookup table go  *)
(* in, the destination tile comes out.                                     *)

LocalDims == { << 3, 3 >>, << 64, 3 >>, << 70, 3 >>, << 130, 3 >> }
\* the columns next to the word boundaries of a tile row, and its two ends
LocalCols(width) == { x \in {0, 1, 62, 63, 64, 65, 127, 128, width - 1} : x < width }

\* tile.set(x, y, true) for every cell of `cells`
LocalTile_with(width, height, cells) ==
    [ LocalTile_new(width, height) EXCEPT !.data =
        Vec([ i \in 0 .. (CeilDiv64(width) * height - 1) |->
            { b \in Lanes :
                << 64 * (i % CeilDiv64(width)) + b, i \div CeilDiv64(width) >> \in cells } ]) ]

\* the subsets of S with at most n elements
RECURSIVE SetsUpTo(_, _)
SetsUpTo(S, n) ==
    IF n = 0 THEN { {} }
    ELSE LET smaller == SetsUpTo(S, n - 1)
         IN  smaller \cup { T \cup {c} : T \in smaller, c \in S }

LocalInit ==
    /\ grid = NoGrid
    /\ last = Op("new", 0, 0, FALSE)
    /\ call = NoCall
    /\ pending = {}
    /\ row_results = << >>
    /\ output_chunks = << >>
    /\ tile_results = << >>
    /\ result = NoGrid
    /\ scattered = 0
    /\ word_writers = << >>
    /\ \E d \in LocalDims, rule \in Rules :
       \E cells \in SetsUpTo(LocalCols(d[1]) \X (0 .. (d[2] - 1)), MaxAlive) :
         /\ kernel = [ phase |-> "tile_input", rule |-> rule,
                       tile |-> LocalTile_with(d[1], d[2], cells),
                       dest |-> LocalTile_new(d[1], d[2]) ]

\* self.evolve_into(&mut dest, lookup)
LocalEvolveInto ==
    /\ kernel.phase = "tile_input"
    /\ kernel' = [ kernel EXCEPT
         !.phase = "tile_output",
         !.dest = LocalTile_evolve_into(kernel.tile, build_rule_lookup(kernel.rule)) ]
    /\ MainVarsUnchanged

LocalNext == LocalEvolveInto

SpecLocal == LocalInit /\ [][LocalNext]_vars

----------------------------------------------------------------------------
(* copy_to_local_tile on its own: a grid as randomize() can leave it and a *)
(* region go in, the local tile comes out.                                 *)

GatherDims == { << 5, 5 >>, << 70, 4 >>, << 130, 5 >> }
GatherCols(g) == { x \in {0, 59, 60, 63, 64, g.width - 1} : x < g.width }
GatherRows == { 0, 1 }
\* the stored positions of g that take part: cells and padding bits
StoredCells(g) == (GatherCols(g) \cup PadCols(g)) \X GatherRows

\* the grid of the given dimensions whose stored bits are exactly `cells`
StoredGrid(width, height, cells) ==
    [ BitGrid_new(width, height) EXCEPT !.chunks =
        Vec([ i \in 0 .. (CeilDiv64(width) * height - 1) |->
            WordOf(BitGrid_new(width, height), cells, i) ]) ]

\* regions << start_x, start_y, local_width, local_height >>: inside the
\* grid, wrapping around either edge, and the region of a whole-grid tile
GatherRegions(g) ==
    ({ 0, 1, 60 } \X { 0 } \X { 3, 64, 66 } \X { 2, g.height + 2 * HALO_SIZE })
    \cup { << g.width - HALO_SIZE, g.height - HALO_SIZE,
              g.width + 2 * HALO_SIZE, g.height + 2 * HALO_SIZE >> }

GatherInit ==
    /\ \E d \in GatherDims :
       \E cells \in SetsUpTo(StoredCells(BitGrid_new(d[1], d[2])), MaxAlive) :
          grid = StoredGrid(d[1], d[2], cells)
    /\ last = Op("new", 0, 0, FALSE)
    /\ call = NoCall
    /\ pending = {}
    /\ row_results = << >>
    /\ output_chunks = << >>
    /\ tile_results = << >>
    /\ result = NoGrid
    /\ scattered = 0
    /\ word_writers = << >>
    /\ kernel = NoKernel

\* copy_to_local_tile(&grid, start_x, start_y, local_width, local_height)
Gather ==
    /\ kernel = NoKernel
    /\ \E r \in GatherRegions(grid) :
          kernel' = [ phase |-> "gathered", start_x |-> r[1], start_y |-> r[2],
                      local_width |-> r[3], local_height |-> r[4],
                      tile |-> copy_to_local_tile(grid, r[1], r[2], r[3], r[4]) ]
    /\ MainVarsUnchanged

GatherNext == Gather

SpecGather == GatherInit /\ [][GatherNext]_vars

----------------------------------------------------------------------------
(* The unaligned word access of BitGrid on its own: a grid as new() or     *)
(* randomize() leaves it, at most one set_word64_or, then a get_word64.    *)

WordDims == { << 64, 2 >>, << 70, 3 >>, << 130, 3 >> }
WordCols(g) == { x \in {0, 63, 64, g.width - 1} : x < g.width }
WordRows(g) == 0 .. (g.height - 1)
\* bit offsets into a stored row: aligned, just off a word boundary, the
\* last bit of the row
WordOffsets(g) ==
    { x \in {0, 1, 63, 64, 65, 127, 128, 64 * g.chunk_width - 1} : x < 64 * g.chunk_width }
\* the values OR-ed in
WordValues == { {}, {63}, {0, 62, 63}, Lanes }

NoWord == [ phase |-> "none", x |-> 0, y |-> 0, val |-> {}, before |-> NoGrid,
            written |-> FALSE, out |-> {} ]

WordsInit ==
    /\ \E d \in WordDims :
       \E cells \in SetsUpTo((WordCols(BitGrid_new(d[1], d[2])) \cup PadCols(BitGrid_new(d[1], d[2])))
                                \X WordRows(BitGrid_new(d[1], d[2])), MaxAlive) :
          grid = StoredGrid(d[1], d[2], cells)
    /\ last = Op("new", 0, 0, FALSE)
    /\ call = NoCall
    /\ pending = {}
    /\ row_results = << >>
    /\ output_chunks = << >>
    /\ tile_results = << >>
    /\ result = NoGrid
    /\ scattered = 0
    /\ word_writers = << >>
    /\ kernel = NoWord

WordVarsUnchanged ==
    UNCHANGED << last, call, pending, row_results, output_chunks, tile_results,
                 result, scattered, word_writers >>

\* grid.set_word64_or(x, y, val)
SetWord64Or(x, y, val) ==
    /\ kernel.phase = "none"
    /\ grid' = BitGrid_set_word64_or(grid, x, y, val)
    /\ kernel' = [ kernel EXCEPT !.phase = "written", !.x = x, !.y = y, !.val = val,
                                 !.before = grid, !.written = TRUE ]
    /\ WordVarsUnchanged

\* grid.get_word64(x, y)
GetWord64(x, y) ==
    /\ kernel.phase \in {"none", "written"}
    /\ kernel.written => x = kernel.x /\ y = kernel.y
    /\ kernel' = [ kernel EXCEPT !.phase = "read", !.x = x, !.y = y,
                                 !.out = BitGrid_get_word64(grid, x, y) ]
    /\ UNCHANGED grid
    /\ WordVarsUnchanged

WordsNext ==
    \/ \E x \in WordOffsets(grid), y \in WordRows(grid), val \in WordValues :
          SetWord64Or(x, y, val)
    \/ \E x \in WordOffsets(grid), y \in WordRows(grid) : GetWord64(x, y)

SpecWords == WordsInit /\ [][WordsNext]_vars

----------------------------------------------------------------------------
(* BitGrid::count_neighbors on its own, on grids as randomize() can leave  *)
(* them, down to a single cell.                                            *)

NeighborDims == { << 1, 1 >>, << 1, 3 >>, << 2, 2 >>, << 3, 3 >>, << 70, 3 >> }
NeighborCols(g) == { x \in {0, 1, 2, g.width - 2, g.width - 1} : 0 <= x /\ x < g.width }
NeighborRows(g) == 0 .. (g.height - 1)
\* the stored positions that take part: cells around the two edges and the
\* padding bits
NeighborCells(g) == (NeighborCols(g) \cup PadCols(g)) \X NeighborRows(g)
\* fills with at most MaxAlive of these bits set, or at most MaxAlive clear
NeighborFills(g) ==
    LET few == SetsUpTo(NeighborCells(g), MaxAlive)
    IN  few \cup { NeighborCells(g) \ c : c \in few }

NeighborsInit ==
    /\ \E d \in NeighborDims :
       \E cells \in NeighborFills(BitGrid_new(d[1], d[2])) :
          grid = StoredGrid(d[1], d[2], cells)
    /\ last = Op("new", 0, 0, FALSE)
    /\ call = NoCall
    /\ pending = {}
    /\ row_results = << >>
    /\ output_chunks = << >>
    /\ tile_results = << >>
    /\ result = NoGrid
    /\ scattered = 0
    /\ word_writers = << >>
    /\ kernel = NoKernel

\* grid.count_neighbors(x, y)
CountNeighbors(x, y) ==
    /\ kernel = NoKernel
    /\ kernel' = [ phase |-> "neighbors_counted", x |-> x, y |-> y,
                   count |-> BitGrid_count_neighbors(grid, x, y) ]
    /\ MainVarsUnchanged

NeighborsNext ==
    \E x \in NeighborCols(grid), y \in NeighborRows(grid) : CountNeighbors(x, y)

SpecNeighbors == NeighborsInit /\ [][NeighborsNext]_vars

----------------------------------------------------------------------------
(* The reference evolution next to the bit-packed one: the same grid, as   *)
(* randomize() can leave it, goes through bitgrid_to_grid, Grid::evolve,   *)
(* grid_to_bitgrid and through BitGrid::evolve.                            *)

NoReference ==
    [ phase |-> "reference", rule |-> "Conway", done |-> {},
      original |-> NoGrid, naive |-> NoGrid, round_trip |-> NoGrid ]

\* grid sizes: a single cell, every neighbour across an edge, the smallest
\* grid without coinciding neighbours, and two words with a partial last word
ReferenceDims == { << 1, 1 >>, << 2, 2 >>, << 3, 3 >>, << 65, 2 >> }

ReferenceInit ==
    /\ \E d \in ReferenceDims :
       \E cells \in NeighborFills(BitGrid_new(d[1], d[2])) :
          grid = StoredGrid(d[1], d[2], cells)
    /\ last = Op("new", 0, 0, FALSE)
    /\ call = NoCall
    /\ pending = {}
    /\ row_results = << >>
    /\ output_chunks = << >>
    /\ tile_results = << >>
    /\ result = NoGrid
    /\ scattered = 0
    /\ word_writers = << >>
    /\ \E rule \in Rules : kernel = [ NoReference EXCEPT !.rule = rule ]

\* grid_to_bitgrid(&bitgrid_to_grid(&grid).evolve(rule))
EvolveOriginal ==
    /\ "original" \notin kernel.done
    /\ kernel' = [ kernel EXCEPT
         !.done = @ \cup {"original"},
         !.original = grid_to_bitgrid(Grid_evolve(bitgrid_to_grid(grid), kernel.rule)) ]
    /\ MainVarsUnchanged

\* grid.evolve(rule)
EvolveBitGridNaive ==
    /\ "naive" \notin kernel.done
    /\ kernel' = [ kernel EXCEPT
         !.done = @ \cup {"naive"},
         !.naive = BitGrid_evolve(grid, kernel.rule) ]
    /\ MainVarsUnchanged

\* grid_to_bitgrid(&bitgrid_to_grid(&grid))
RoundTrip ==
    /\ "round_trip" \notin kernel.done
    /\ kernel' = [ kernel EXCEPT
         !.done = @ \cup {"round_trip"},
         !.round_trip = grid_to_bitgrid(bitgrid_to_grid(grid)) ]
    /\ MainVarsUnchanged

ReferenceNext == EvolveOriginal \/ EvolveBitGridNaive \/ RoundTrip

SpecReference == ReferenceInit /\ [][ReferenceNext]_vars

----------------------------------------------------------------------------
(* evolve_simd on its own, on grids as randomize() can leave them: one     *)
(* word and several words per row, one to three rows.                      *)

SimdDims == { << 1, 1 >>, << 3, 3 >>, << 64, 1 >>, << 64, 2 >>, << 70, 3 >>, << 128, 2 >> }
SimdCols(g) == { x \in {0, 1, 63, 64, g.width - 1} : x < g.width }
SimdRows(g) == 0 .. (g.height - 1)
SimdCells(g) == (SimdCols(g) \cup PadCols(g)) \X SimdRows(g)
\* fills with at most MaxAlive of these bits set, or at most MaxAlive clear
SimdFills(g) ==
    LET few == SetsUpTo(SimdCells(g), MaxAlive)
    IN  few \cup { SimdCells(g) \ c : c \in few }

SimdInit ==
    /\ \E d \in SimdDims :
       \E cells \in SimdFills(BitGrid_new(d[1], d[2])) :
          grid = StoredGrid(d[1], d[2], cells)
    /\ last = Op("new", 0, 0, FALSE)
    /\ call = NoCall
    /\ pending = {}
    /\ row_results = << >>
    /\ output_chunks = << >>
    /\ tile_results = << >>
    /\ result = NoGrid
    /\ scattered = 0
    /\ word_writers = << >>
    /\ kernel = NoKernel

SimdNext == \E rule \in Rules : EvolveSimd(rule)

SpecSimd == SimdInit /\ [][SimdNext]_vars

----------------------------------------------------------------------------
(* application/game_state.rs: GameState, the grid with its rule, its       *)
(* algorithm, the play/pause flag, the generation counter and the update   *)
(* timer.  Every method runs to completion before the next is called; the  *)
(* rayon entry points have returned when tick goes on.                     *)

Algorithms == { "Original", "OriginalParallel", "BitGridNaive", "BitGridNaiveParallel",
                "Simd", "SimdParallel", "TemporalBlocking", "TemporalBlockingParallel" }

\* the bound on the generation counter
MaxGeneration == 2

\* grid sizes, at least HALO_SIZE wide and high
GameDims == { << 5, 5 >>, << 8, 6 >> }
GameRules == { "Conway", "Seeds" }

\* outcomes of grid.randomize(): stored bits, the last of them with a
\* padding bit
GameBlinker == { << 1, 2 >>, << 2, 2 >>, << 3, 2 >> }
GameFills == { {}, GameBlinker, { << 0, 0 >>, << 1, 0 >> },
               GameBlinker \cup { << 0, 0 >> }, GameBlinker \cup { << 63, 1 >> } }

\* time in twentieths of a second: updates_per_second = 10.0 makes
\* update_interval = 1.0 / 10.0 two of them
update_interval == 2
DeltaTimes == { 1, 2 }

\* grid.evolve_parallel(rule) of Grid: the cells are computed one by one and
\* collected in index order
Grid_evolve_parallel(g, rule) ==
    [ g EXCEPT !.cells =
        Vec([ i \in DOMAIN g.cells |->
            LET x == i % g.width
                y == i \div g.width
            IN  Rule_evolve(rule, Grid_get(g, x, y), Grid_count_live_neighbors(g, x, y)) ]) ]

\* grid.evolve_parallel(rule) of BitGrid once collect() has returned
BitGrid_evolve_parallel(g, rule) ==
    apply_rows_from(BitGrid_new(g.width, g.height),
                    [ y \in 0 .. (g.height - 1) |-> row_cells(g, rule, y) ], 0)

\* simd_life::evolve_simd_parallel once for_each has returned
evolve_simd_parallel(g, rule) ==
    LET chunk_width == CeilDiv64(g.width)
        lookup == build_rule_lookup(rule)
    IN  BitGrid_from_chunks(g.width, g.height,
            Vec([ i \in 0 .. (g.height * chunk_width - 1) |->
                simd_next_chunk(g, lookup, i % chunk_width, i \div chunk_width,
                                chunk_width, g.height) ]))

\* the generations argument tick hands to the entry point of `algorithm`
tick_generations(algorithm) ==
    IF algorithm \in {"TemporalBlocking", "TemporalBlockingParallel"}
    THEN 4 ELSE 1

\* the `match self.algorithm` of tick
tick_dispatch(g, rule, algorithm) ==
    CASE algorithm = "Original" ->
            grid_to_bitgrid(Grid_evolve(bitgrid_to_grid(g), rule))
      [] algorithm = "OriginalParallel" ->
            grid_to_bitgrid(Grid_evolve_parallel(bitgrid_to_grid(g), rule))
      [] algorithm = "BitGridNaive" -> BitGrid_evolve(g, rule)
      [] algorithm = "BitGridNaiveParallel" -> BitGrid_evolve_parallel(g, rule)
      [] algorithm = "Simd" -> evolve_simd(g, rule)
      [] algorithm = "SimdParallel" -> evolve_simd_parallel(g, rule)
      [] algorithm = "TemporalBlocking" ->
            evolve_temporal_blocking(g, rule, tick_generations(algorithm))
      [] algorithm = "TemporalBlockingParallel" ->
            evolve_temporal_blocking_parallel(g, rule, tick_generations(algorithm))

\* GameState::new(width, height).  `applied` counts the generations handed to
\* evolution calls since the last reset; `ticked`, `before` and
\* `before_generation` record what the last call did if it was a tick
GameState_new(width, height) ==
    [ phase |-> "game",
      rule |-> "Conway",
      algorithm |-> "TemporalBlockingParallel",
      is_running |-> FALSE,
      generation |-> 0,
      update_timer |-> 0,
      applied |-> 0,
      ticked |-> "no",
      before |-> NoGrid,
      before_generation |-> 0 ]

GameInit ==
    /\ \E d \in GameDims :
          /\ grid = BitGrid_new(d[1], d[2])
          /\ kernel = GameState_new(d[1], d[2])
    /\ last = Op("new", 0, 0, FALSE)
    /\ call = NoCall
    /\ pending = {}
    /\ row_results = << >>
    /\ output_chunks = << >>
    /\ tile_results = << >>
    /\ result = NoGrid
    /\ scattered = 0
    /\ word_writers = << >>

GameVarsUnchanged ==
    UNCHANGED << last, call, pending, row_results, output_chunks, tile_results,
                 result, scattered, word_writers >>

\* what a call other than tick leaves in the record of the last tick
NotTicked(k) == [ k EXCEPT !.ticked = "no", !.before = NoGrid, !.before_generation = 0 ]

\* state.resize_grid(width, height)
ResizeGrid(width, height) ==
    /\ grid' = BitGrid_new(width, height)
    /\ kernel' = [ NotTicked(kernel) EXCEPT !.generation = 0, !.is_running = FALSE,
                                            !.applied = 0 ]
    /\ GameVarsUnchanged

\* state.set_rule(rule)
SetRule(rule) ==
    /\ kernel' = [ NotTicked(kernel) EXCEPT !.rule = rule ]
    /\ UNCHANGED grid
    /\ GameVarsUnchanged

\* state.set_algorithm(algorithm)
SetAlgorithm(algorithm) ==
    /\ kernel' = [ NotTicked(kernel) EXCEPT !.algorithm = algorithm ]
    /\ UNCHANGED grid
    /\ GameVarsUnchanged

\* state.toggle_running()
ToggleRunning ==
    /\ kernel' = [ NotTicked(kernel) EXCEPT !.is_running = ~@ ]
    /\ UNCHANGED grid
    /\ GameVarsUnchanged

\* state.clear()
GameClear ==
    /\ grid' = BitGrid_clear(grid)
    /\ kernel' = [ NotTicked(kernel) EXCEPT !.generation = 0, !.is_running = FALSE,
                                            !.applied = 0 ]
    /\ GameVarsUnchanged

\* state.randomize()
GameRandomize ==
    /\ \E cells \in GameFills : grid' = StoredGrid(grid.width, grid.height, cells)
    /\ kernel' = [ NotTicked(kernel) EXCEPT !.generation = 0, !.is_running = FALSE,
                                            !.applied = 0 ]
    /\ GameVarsUnchanged

\* state.tick(delta_time)
Tick(delta_time) ==
    /\ IF ~kernel.is_running
       THEN /\ kernel' = [ kernel EXCEPT !.ticked = "paused", !.before = grid,
                                         !.before_generation = kernel.generation ]
            /\ UNCHANGED grid
       ELSE LET update_timer == kernel.update_timer + delta_time
            IN  IF update_timer >= update_interval
                THEN /\ kernel.generation < MaxGeneration
                     /\ grid' = tick_dispatch(grid, kernel.rule, kernel.algorithm)
                     /\ kernel' = [ kernel EXCEPT
                            !.generation = @ + 1,
                            !.update_timer = 0,
                            !.applied = @ + tick_generations(kernel.algorithm),
                            !.ticked = "fired",
                            !.before = grid,
                            !.before_generation = kernel.generation ]
                ELSE /\ kernel' = [ kernel EXCEPT
                            !.update_timer = update_timer,
                            !.ticked = "waiting",
                            !.before = grid,
                            !.before_generation = kernel.generation ]
                     /\ UNCHANGED grid
    /\ GameVarsUnchanged

GameNext ==
    \/ \E delta_time \in DeltaTimes : Tick(delta_time)
    \/ ToggleRunning
    \/ \E algorithm \in Algorithms : SetAlgorithm(algorithm)
    \/ \E rule \in GameRules : SetRule(rule)
    \/ GameClear
    \/ GameRandomize
    \/ \E d \in GameDims : ResizeGrid(d[1], d[2])

SpecGame == GameInit /\ [][GameNext]_vars

----------------------------------------------------------------------------
(* The cell API on its own, with the client's latest operation recorded.   *)

CellsSet(x, y, alive) == SetCell(x, y, alive) /\ last' = Op("set", x, y, alive)
CellsClear == ClearGrid /\ last' = Op("clear", 0, 0, FALSE)
CellsRandomize == RandomizeGrid /\ last' = Op("randomize", 0, 0, FALSE)

CellsNext ==
    \/ \E x \in PaintCols(grid) \cup OutCols(grid),
          y \in PaintRows \cup OutRows(grid), alive \in BOOLEAN : CellsSet(x, y, alive)
    \/ CellsClear
    \/ CellsRandomize

SpecCells == Init /\ [][CellsNext]_vars

----------------------------------------------------------------------------
(* Properties                                                              *)

\* a and b have the same dimensions and agree at every cell x < width,
\* y < height
AgreeInRange(a, b) ==
    /\ a.width = b.width
    /\ a.height = b.height
    /\ \A y \in 0 .. (a.height - 1) : \A x \in 0 .. (a.width - 1) :
          BitGrid_get(a, x, y) = BitGrid_get(b, x, y)

\* g with every stored bit at a column >= width cleared
WithoutPadding(g) ==
    [ g EXCEPT !.chunks =
        Vec([ i \in DOMAIN g.chunks |->
                { b \in g.chunks[i] : 64 * (i % g.chunk_width) + b < g.width } ]) ]


RECURSIVE simd_generations(_, _, _)
simd_generations(g, rule, n) ==
    IF n = 0 THEN g ELSE simd_generations(evolve_simd(g, rule), rule, n - 1)

\* C1: evolve_temporal_blocking(grid, rule, 4) agrees at every in-range cell
\* with four successive applications of evolve_simd to the same grid.
C1_TemporalBlockingMatchesSimd ==
    Returned("evolve_temporal_blocking") /\ call.generations = GENERATIONS_PER_TILE
        => AgreeInRange(result, simd_generations(grid, call.rule, GENERATIONS_PER_TILE))

\* C2: evolve_simd agrees at every in-range cell with the cell-by-cell
\* toroidal evolution BitGrid::evolve, whatever the padding bits hold.
C2_SimdMatchesNaive ==
    Returned("evolve_simd") => AgreeInRange(result, BitGrid_evolve(grid, call.rule))

\* C3: padding bits do not influence evolve_simd / evolve_simd_parallel: the
\* output agrees in range with the output for the grid that has the same
\* in-range cells and cleared padding bits.
C3_PaddingHasNoInfluence ==
    Returned("evolve_simd") \/ Returned("evolve_simd_parallel")
        => AgreeInRange(result, evolve_simd(WithoutPadding(grid), call.rule))

\* C4: evolve_simd_parallel returns, word for word, the grid evolve_simd
\* returns, in whatever order the row tasks run; while tasks are outstanding
\* every row slice holds either its initial zeros (task not yet run) or its
\* final words (task run), so no task writes outside its own row, and the
\* buffer becomes the result only once no task is outstanding.
C4_SimdParallelMatchesSerial ==
    LET chunk_width == CeilDiv64(grid.width)
        serial == evolve_simd(grid, call.rule)
    IN  /\ Running("evolve_simd_parallel") =>
              /\ result = NoGrid
              /\ \A i \in DOMAIN output_chunks :
                    output_chunks[i] = IF (i \div chunk_width) \in pending THEN {}
                                       ELSE serial.chunks[i]
        /\ Returned("evolve_simd_parallel") =>
              /\ pending = {}
              /\ result = serial

C4_Witness ==
    /\ Returned("evolve_simd_parallel")
    /\ grid.chunk_width > 1
    /\ \E i \in DOMAIN result.chunks : result.chunks[i] # {}

\* C5: evolve_temporal_blocking_parallel returns the grid
\* evolve_temporal_blocking returns for the same arguments, in whatever order
\* the tile tasks run, and no tile is scattered while a tile task is
\* outstanding.
C5_ParallelBlockingMatchesSerial ==
    /\ call.name = "evolve_temporal_blocking_parallel" /\ scattered > 0
          => pending = {}
    /\ Returned("evolve_temporal_blocking_parallel")
          => result = evolve_temporal_blocking(grid, call.rule, call.generations)

C5_Witness ==
    /\ Returned("evolve_temporal_blocking_parallel")
    /\ total_tiles(grid) > 1
    /\ call.generations = GENERATIONS_PER_TILE
    /\ \E i \in DOMAIN result.chunks : result.chunks[i] # {}

\* cell (x, y) lies in the interior of the tile with geometry t
InInterior(t, x, y) ==
    /\ t.tile_x <= x /\ x < t.tile_x + t.actual_width
    /\ t.tile_y <= y /\ y < t.tile_y + t.actual_height

BlockedCall ==
    /\ call.name \in {"evolve_temporal_blocking", "evolve_temporal_blocking_parallel"}
    /\ call.status \in {"running", "returned"}

\* C6: in both blocked entry points every in-range cell lies in the interior
\* of exactly one tile, every tile interior starts at a column that is a
\* multiple of 64, and no stored word of the output is written by the scatter
\* of two different tiles; when the call returns every stored word has been
\* written by one tile.
C6_TilesPartitionGrid ==
    BlockedCall =>
        LET tiles == 0 .. (total_tiles(grid) - 1)
            geom == Vec([ t \in tiles |-> tile_geom(grid.width, grid.height, t) ])
        IN  /\ \A y \in 0 .. (grid.height - 1) : \A x \in 0 .. (grid.width - 1) :
                  Cardinality({ t \in tiles : InInterior(geom[t], x, y) }) = 1
            /\ \A t \in tiles : geom[t].tile_x % 64 = 0
            /\ \A i \in DOMAIN word_writers : Cardinality(word_writers[i]) <= 1
            /\ call.status = "returned"
                  => \A i \in DOMAIN word_writers : Cardinality(word_writers[i]) = 1

C6_Witness ==
    /\ BlockedCall
    /\ call.status = "returned"
    /\ num_tiles(grid.width) > 1 /\ num_tiles(grid.height) > 1
    /\ grid.width % 64 # 0
    /\ \A t \in 0 .. (total_tiles(grid) - 1) :
          \E i \in DOMAIN word_writers : word_writers[i] = {t}

\* C7: for each rule and every count c in 0..8, the table has at c the
\* outcome of rule.evolve(Dead, c) and at 16 + c the outcome of
\* rule.evolve(Alive, c); every other entry is false.
C7_LookupMatchesRule ==
    kernel.phase = "applied" =>
        /\ \A c \in 0 .. 8 :
              /\ kernel.lookup[c] = (Rule_evolve(kernel.rule, "Dead", c) = "Alive")
              /\ kernel.lookup[16 + c] = (Rule_evolve(kernel.rule, "Alive", c) = "Alive")
        /\ \A i \in (9 .. 15) \cup (25 .. 31) : ~kernel.lookup[i]

C7_Witness ==
    /\ kernel.phase = "applied"
    /\ kernel.rule = "HighLife"
    /\ kernel.lookup[6]
    /\ ~kernel.lookup[16 + 6]

\* the cell at position pos of a row word, where position 64 is the left_bit
\* argument and position -1 the right_bit argument
RowBit(word, left_bit, right_bit, pos) ==
    IF pos = 64 THEN left_bit ELSE IF pos = -1 THEN right_bit ELSE pos \in word

\* number of live cells among the 8 neighbours of lane i
LiveNeighbours(k, i) ==
    Cardinality({ p \in {i - 1, i, i + 1} : RowBit(k.above, k.bits[1], k.bits[2], p) })
  + Cardinality({ p \in {i - 1, i + 1} : RowBit(k.current, k.bits[3], k.bits[4], p) })
  + Cardinality({ p \in {i - 1, i, i + 1} : RowBit(k.below, k.bits[5], k.bits[6], p) })

CountAt(counts, i) ==
    (IF i \in counts[4] THEN 8 ELSE 0) + (IF i \in counts[3] THEN 4 ELSE 0)
  + (IF i \in counts[2] THEN 2 ELSE 0) + (IF i \in counts[1] THEN 1 ELSE 0)

\* C8: in every lane the four output words of compute_neighbor_counts spell,
\* in binary, the number of live cells among the lane's 8 neighbours, which
\* is at most 8.
C8_CountsAreNeighbourCounts ==
    kernel.phase \in {"counted", "applied"} =>
        \A i \in Lanes :
            /\ CountAt(kernel.counts, i) = LiveNeighbours(kernel, i)
            /\ CountAt(kernel.counts, i) <= 8

C8_Witness ==
    /\ kernel.phase = "counted"
    /\ CountAt(kernel.counts, 0) = 8
    /\ kernel.bits[2] /\ kernel.bits[4] /\ kernel.bits[6]

\* C9: a set at a coordinate with x >= width or y >= height leaves the grid
\* (words and dimensions) as it was, and get at that coordinate is false.
C9_OutOfRangeIsNoOp ==
    [][ last'.op = "set" /\ (last'.x >= grid.width \/ last'.y >= grid.height)
          => /\ grid' = grid
             /\ ~BitGrid_get(grid', last'.x, last'.y) ]_vars

C9_Witness ==
    /\ last.op = "set"
    /\ last.alive
    /\ last.x = grid.width
    /\ grid.width % 64 # 0
    /\ BitGrid_count_alive(grid) > 0

\* C10: no step of an evolution call changes the input grid, and the grid a
\* call returns has the width and height of the input.
C10_InputUnchanged ==
    [][ /\ call'.status # "idle" => grid' = grid
        /\ call'.status = "returned"
              => result'.width = grid.width /\ result'.height = grid.height ]_vars

C10_Witness ==
    /\ call.status = "returned"
    /\ call.name = "evolve_simd"
    /\ result # grid
    /\ BitGrid_count_alive(grid) > 0

\* the stored words of g are as many as its dimensions require
WordsMatchDimensions(g) ==
    /\ g.chunk_width = CeilDiv64(g.width)
    /\ ChunksLen(g) = CeilDiv64(g.width) * g.height
    /\ BitGrid_memory_bytes(g) = CeilDiv64(g.width) * g.height * 8

\* C11: the grid the client holds (created by new, changed by set, clear and
\* randomize) and every grid an evolution call returns store
\* ceil(width/64) * height words, and memory_bytes() is 8 times that.
C11_WordCountMatchesDimensions ==
    /\ WordsMatchDimensions(grid)
    /\ call.status = "returned" => WordsMatchDimensions(result)

C11_Witness ==
    /\ Returned("evolve_simd_parallel")
    /\ grid.width = 70
    /\ BitGrid_memory_bytes(result) = 64
    /\ BitGrid_count_alive(grid) > 0

\* C12: in every blocked call the local tile of every tile is its interior
\* padded on each side with as many halo cells as the call's `generations`.
C12_HaloEqualsGenerations ==
    BlockedCall =>
        \A t \in 0 .. (total_tiles(grid) - 1) :
            LET geom == tile_geom(grid.width, grid.height, t)
            IN  /\ geom.local_width = geom.actual_width + 2 * call.generations
                /\ geom.local_height = geom.actual_height + 2 * call.generations

\* C13: Day&Night makes a dead cell alive exactly at the counts 3, 4, 6, 7, 8
\* and keeps a live cell alive exactly at the counts 3, 6, 7, 8.
C13_DayAndNightAsStated ==
    kernel.phase = "rule_output" /\ kernel.rule = "Day&Night" =>
        (kernel.next_state = "Alive") =
            \/ kernel.current = "Dead" /\ kernel.neighbors \in {3, 4, 6, 7, 8}
            \/ kernel.current = "Alive" /\ kernel.neighbors \in {3, 6, 7, 8}

\* C13 (amended): Day&Night makes a dead cell alive exactly at the counts
\* 3, 6, 7, 8 and keeps a live cell alive exactly at the counts 3, 4, 6, 7, 8;
\* every other (state, count) pair gives Dead.
C13_DayAndNightBirthAndSurvival ==
    kernel.phase = "rule_output" /\ kernel.rule = "Day&Night" =>
        /\ kernel.next_state \in Cells
        /\ (kernel.next_state = "Alive") =
              \/ kernel.current = "Dead" /\ kernel.neighbors \in {3, 6, 7, 8}
              \/ kernel.current = "Alive" /\ kernel.neighbors \in {3, 4, 6, 7, 8}

C13_Witness ==
    /\ kernel.phase = "rule_output"
    /\ kernel.rule = "Day&Night"
    /\ kernel.current = "Alive"
    /\ kernel.neighbors = 4
    /\ kernel.next_state = "Alive"

\* C14: after one generation under SeedsRule, by any evolution path (the
\* blocked paths with generations = 1), no in-range cell that is alive in the
\* input is alive in the output, and an in-range cell that is dead in the
\* input and alive in the output has exactly 2 live neighbours in the input.
C14_SeedsDiesAndIsBornAtTwo ==
    /\ call.status = "returned"
    /\ call.rule = "Seeds"
    /\ BlockedCall => call.generations = 1
    => \A y \in 0 .. (grid.height - 1) : \A x \in 0 .. (grid.width - 1) :
          /\ ~(BitGrid_get(grid, x, y) /\ BitGrid_get(result, x, y))
          /\ ~BitGrid_get(grid, x, y) /\ BitGrid_get(result, x, y)
                => BitGrid_count_neighbors(grid, x, y) = 2

\* the in-range cells of g that get reports alive
AliveCells(g) ==
    { c \in (0 .. (g.width - 1)) \X (0 .. (g.height - 1)) : BitGrid_get(g, c[1], c[2]) }

\* C15: from a grid holding only a horizontal blinker, one generation under
\* ConwayRule by any evolution path (the blocked paths with generations = 1)
\* returns exactly the vertical blinker through the same centre, and a second
\* generation returns exactly the horizontal blinker.
C15_BlinkerOscillates ==
    /\ call.status = "returned"
    /\ call.generations = 1
    /\ last.op = "blinker"
    => /\ last.generation = 0 => AliveCells(result) = Vertical(last.x, last.y)
       /\ last.generation = 1 /\ AliveCells(grid) = Vertical(last.x, last.y)
             => AliveCells(result) = Horizontal(last.x, last.y)

\* C16: from a grid holding only a 2x2 block, ConwayRule by any evolution path
\* (the blocked paths with generations 1 to 4) returns a grid with exactly the
\* same live in-range cells.
C16_BlockIsStill ==
    /\ call.status = "returned"
    /\ last.op = "block"
    /\ last.generation = 0
    => AliveCells(result) = Block(last.x, last.y)

\* C17: evolve_parallel returns a grid that agrees with evolve at every
\* in-range cell, in whatever order the row tasks run; while row tasks are
\* outstanding the output grid is still empty, and it is returned only when
\* none is outstanding.
C17_EvolveParallelMatchesEvolve ==
    /\ Running("evolve_parallel") =>
          /\ result = BitGrid_new(grid.width, grid.height)
          /\ DOMAIN row_results = (0 .. (grid.height - 1)) \ pending
    /\ Returned("evolve_parallel") =>
          /\ pending = {}
          /\ AgreeInRange(result, BitGrid_evolve(grid, call.rule))

C17_Witness ==
    /\ Returned("evolve_parallel")
    /\ grid.width = 70
    /\ BitGrid_get(result, 69, 0)
    /\ BitGrid_get(result, 0, 2)

\* C18: a set(x, y, v) at an in-range coordinate makes get(x, y) return v,
\* leaves get unchanged at every other in-range coordinate, and leaves the
\* dimensions and the number of stored words unchanged.
C18_SetThenGet ==
    [][ last'.op = "set" /\ last'.x < grid.width /\ last'.y < grid.height
          => /\ BitGrid_get(grid', last'.x, last'.y) = last'.alive
             /\ \A y \in 0 .. (grid.height - 1) : \A x \in 0 .. (grid.width - 1) :
                   << x, y >> # << last'.x, last'.y >>
                      => BitGrid_get(grid', x, y) = BitGrid_get(grid, x, y)
             /\ BitGrid_dimensions(grid') = BitGrid_dimensions(grid)
             /\ ChunksLen(grid') = ChunksLen(grid) ]_vars

C18_Witness ==
    /\ last.op = "set"
    /\ ~last.alive
    /\ last.x = 63 /\ last.y = 1
    /\ grid.width = 70
    /\ BitGrid_get(grid, 60, 1)

\* C19: for the same three words and six boundary bits,
\* compute_next_chunk_conway returns the word compute_next_chunk_with_rule
\* returns with the table of ConwayRule, and a lane of it is set exactly when
\* the lane has 3 live neighbours, or is set in `current` and has 2.
C19_ConwayClosedFormMatchesLookup ==
    kernel.phase = "conway" =>
        /\ kernel.next =
              compute_next_chunk_with_rule(kernel.above, kernel.current, kernel.below,
                  kernel.bits[1], kernel.bits[2], kernel.bits[3],
                  kernel.bits[4], kernel.bits[5], kernel.bits[6],
                  build_rule_lookup("Conway"))
        /\ \A i \in Lanes :
              (i \in kernel.next) =
                  \/ LiveNeighbours(kernel, i) = 3
                  \/ i \in kernel.current /\ LiveNeighbours(kernel, i) = 2

C19_Witness ==
    /\ kernel.phase = "conway"
    /\ 63 \in kernel.current
    /\ kernel.bits[3]
    /\ LiveNeighbours(kernel, 63) = 2
    /\ 63 \in kernel.next
    /\ 62 \notin kernel.next

\* C20: count_alive() of the client's grid, and of every grid an evolution
\* call returns, is the number of in-range cells for which get returns true.
C20_CountAliveCountsCells ==
    /\ BitGrid_count_alive(grid) = Cardinality(AliveCells(grid))
    /\ call.status = "returned"
          => BitGrid_count_alive(result) = Cardinality(AliveCells(result))

\* live cells among the 8 neighbours of (x, y) in tile t; a cell outside the
\* tile is dead
LocalLiveNeighbours(t, x, y) ==
    Cardinality({ d \in Offsets :
        /\ x + d[1] >= 0
        /\ y + d[2] >= 0
        /\ LocalTile_get(t, x + d[1], y + d[2]) })

\* C21: after evolve_into every cell (x, y) of dest with x < width equals
\* table[(alive << 4) | n], n the number of live cells among the 8 neighbours
\* of (x, y) in the source tile, across word boundaries too.
C21_EvolveIntoIsOneGeneration ==
    kernel.phase = "tile_output" =>
        \A y \in 0 .. (kernel.tile.height - 1) : \A x \in 0 .. (kernel.tile.width - 1) :
            LocalTile_get(kernel.dest, x, y) =
                build_rule_lookup(kernel.rule)[
                    (IF LocalTile_get(kernel.tile, x, y) THEN 16 ELSE 0)
                    + LocalLiveNeighbours(kernel.tile, x, y) ]

\* the call that produced kernel.tile took the word-copy path
GatheredFast ==
    /\ kernel.start_x + kernel.local_width <= grid.width
    /\ kernel.start_y + kernel.local_height <= grid.height

\* C22: the tile copy_to_local_tile returns holds at (lx, ly) the grid cell
\* ((start_x + lx) mod width, (start_y + ly) mod height), holds 0 at every
\* bit lx >= local_width, and is the tile the cell-by-cell path gives, on
\* the word-copy path too and whatever the padding bits of the grid are.
C22_GatherIsToroidallyExact ==
    kernel.phase = "gathered" =>
        /\ kernel.tile.width = kernel.local_width
        /\ kernel.tile.height = kernel.local_height
        /\ \A ly \in 0 .. (kernel.local_height - 1) :
           \A lx \in 0 .. (kernel.local_width - 1) :
              LocalTile_get(kernel.tile, lx, ly) =
                  BitGrid_get(grid, (kernel.start_x + lx) % grid.width,
                                    (kernel.start_y + ly) % grid.height)
        /\ \A i \in DOMAIN kernel.tile.data : \A b \in kernel.tile.data[i] :
              64 * (i % kernel.tile.chunk_width) + b < kernel.local_width
        /\ kernel.tile = copy_to_local_tile_slow(grid, kernel.start_x, kernel.start_y,
                                                 kernel.local_width, kernel.local_height)

\* a word copy from an unaligned offset whose second word is read from a
\* grid row with a padding bit set, into a tile with a live cell
C22_Witness ==
    /\ kernel.phase = "gathered"
    /\ GatheredFast
    /\ kernel.start_x = 1
    /\ kernel.local_width = 66
    /\ LocalTile_get(kernel.tile, 62, 1)
    /\ \E x \in PadCols(grid) : (x % 64) \in grid.chunks[grid.chunk_width + (x \div 64)]

\* positions << x, y >> of the bits set in the stored words of grid g
StoredBits(g) ==
    UNION { { << 64 * (i % g.chunk_width) + b, i \div g.chunk_width >> : b \in g.chunks[i] } :
            i \in DOMAIN g.chunks }

\* positions << lx, ly >> of the bits set in the words of local tile t
LocalBits(t) ==
    UNION { { << 64 * (i % t.chunk_width) + b, i \div t.chunk_width >> : b \in t.data[i] } :
            i \in DOMAIN t.data }

\* the grid positions of the live interior cells of a tile: local cell
\* (lx, ly) of the interior lies at (lx - halo + tile_x, ly - halo + tile_y)
InteriorBits(geom, local) ==
    { << c[1] - HALO_SIZE + geom.tile_x, c[2] - HALO_SIZE + geom.tile_y >> :
        c \in { c \in LocalBits(local) :
                  /\ c[1] >= HALO_SIZE /\ c[1] < HALO_SIZE + geom.actual_width
                  /\ c[2] >= HALO_SIZE /\ c[2] < HALO_SIZE + geom.actual_height } }

\* C23: once the tiles 0 .. scattered-1 have been scattered into the zeroed
\* output, the bits set in its stored words are exactly the live interior
\* cells of those tiles, each at its grid position: every in-range cell of
\* a scattered tile equals its local cell, and no halo cell, no bit of
\* another tile row and no bit at a column >= width has been written.
C23_ScatterWritesInteriors ==
    /\ call.name = "evolve_temporal_blocking_parallel"
    /\ call.status \in {"running", "returned"}
    /\ scattered >= 1
    => /\ StoredBits(result) =
            UNION { InteriorBits(tile_geom(grid.width, grid.height, t), tile_results[t]) :
                    t \in 0 .. (scattered - 1) }
       /\ WithoutPadding(result) = result

\* all tiles of a grid of two by two tiles with partial last tiles are
\* scattered; a tile with a live halo cell and no live interior cell is among
\* them, and the output has a live cell
C23_Witness ==
    /\ Returned("evolve_temporal_blocking_parallel")
    /\ num_tiles(grid.width) > 1 /\ num_tiles(grid.height) > 1
    /\ grid.width % 64 # 0
    /\ StoredBits(result) # {}
    /\ \E t \in DOMAIN tile_results :
          /\ LocalBits(tile_results[t]) # {}
          /\ InteriorBits(tile_geom(grid.width, grid.height, t), tile_results[t]) = {}

\* the stored bit at position pos of row y of g, 0 past the end of the row
RowStoredBit(g, pos, y) ==
    /\ pos < 64 * g.chunk_width
    /\ (pos % 64) \in g.chunks[y * g.chunk_width + (pos \div 64)]

\* the bit at position pos of the stored words of g taken as one run of
\* bits, row after row; 0 past the last word
ArrayStoredBit(g, pos) ==
    /\ pos < 64 * ChunksLen(g)
    /\ (pos % 64) \in g.chunks[pos \div 64]

\* C24: get_word64(x, y) returns the 64 bits of row y from offset x on: bit i
\* is the stored bit x + i of row y, and 0 past the end of row y.
C24_GetWord64StaysInRow ==
    kernel.phase = "read" =>
        \A i \in Lanes : (i \in kernel.out) = RowStoredBit(grid, kernel.x + i, kernel.y)

\* C24 (amended): bit i of get_word64(x, y) is the stored bit x + i of row y
\* while x + i is inside row y; past the end of row y it is the bit that
\* follows in the stored words, bit x + i - 64*ceil(width/64) of row y + 1,
\* and 0 when y is the last row.
C24_GetWord64ReadsOn ==
    kernel.phase = "read" =>
        \A i \in Lanes :
            /\ (i \in kernel.out) =
                  ArrayStoredBit(grid, 64 * grid.chunk_width * kernel.y + kernel.x + i)
            /\ (i \in kernel.out) =
                  IF kernel.x + i < 64 * grid.chunk_width
                  THEN RowStoredBit(grid, kernel.x + i, kernel.y)
                  ELSE /\ kernel.y + 1 < grid.height
                       /\ RowStoredBit(grid, kernel.x + i - 64 * grid.chunk_width,
                                       kernel.y + 1)

\* a read from the last bit of a row that brings in the first bit of the
\* next row
C24_Witness ==
    /\ kernel.phase = "read"
    /\ ~kernel.written
    /\ kernel.x = 64 * grid.chunk_width - 1
    /\ kernel.y + 1 < grid.height
    /\ RowStoredBit(grid, kernel.x, kernel.y)
    /\ RowStoredBit(grid, 0, kernel.y + 1)
    /\ kernel.out = {0, 1}

\* C25: on a zero-filled grid, for x + 64 <= 64*ceil(width/64),
\* set_word64_or(x, y, v) sets exactly the bits x + i of row y with i in v
\* and changes no other stored bit, and the get_word64(x, y) that follows
\* returns v.
C25_OrIntoZeroIsAssignment ==
    /\ kernel.written
    /\ StoredBits(kernel.before) = {}
    /\ kernel.x + 64 <= 64 * grid.chunk_width
    => /\ StoredBits(grid) = { << kernel.x + i, kernel.y >> : i \in kernel.val }
       /\ kernel.phase = "read" => kernel.out = kernel.val

\* a value with both end bits set, written across two words of the second
\* row of a zero-filled grid and read back
C25_Witness ==
    /\ kernel.phase = "read"
    /\ kernel.written
    /\ StoredBits(kernel.before) = {}
    /\ kernel.x = 1
    /\ kernel.y = 1
    /\ kernel.val = {0, 62, 63}
    /\ kernel.out = kernel.val

\* C26: count_neighbors(x, y) is the number of offsets (dx, dy) other than
\* (0, 0) with get((x + dx) mod width, (y + dy) mod height) true, an offset
\* counting even where another wraps to the same cell; it lies in 0..8 and
\* is the same on the grid with its padding bits cleared.
C26_CountNeighborsIsToroidal ==
    kernel.phase = "neighbors_counted" =>
        /\ kernel.count =
              Cardinality({ d \in Offsets :
                  BitGrid_get(grid, (kernel.x + d[1]) % grid.width,
                                    (kernel.y + d[2]) % grid.height) })
        /\ kernel.count \in 0 .. 8
        /\ kernel.count = BitGrid_count_neighbors(WithoutPadding(grid), kernel.x, kernel.y)

\* the count at the last column of a 70-wide grid whose row has padding bits
\* set: the neighbours across the edge are counted, the padding is not
C26_Witness ==
    /\ kernel.phase = "neighbors_counted"
    /\ grid.width = 70
    /\ kernel.x = grid.width - 1
    /\ kernel.y = 1
    /\ BitGrid_get(grid, 0, 1)
    /\ WithoutPadding(grid) # grid
    /\ kernel.count >= 1
    /\ kernel.count < Cardinality(Offsets)

\* C27: BitGrid::evolve gives at every in-range cell what Grid::evolve gives
\* on the converted grid, for each rule, and the conversion to a Grid and
\* back keeps every in-range cell.
C27_BitGridEvolveMatchesReference ==
    kernel.phase = "reference" =>
        /\ {"original", "naive"} \subseteq kernel.done
              => AgreeInRange(kernel.naive, kernel.original)
        /\ "round_trip" \in kernel.done => AgreeInRange(kernel.round_trip, grid)

\* both evolutions and the round trip are done on a 65-wide grid with
\* padding bits set, under a rule other than Conway, and cells are alive
\* afterwards
C27_Witness ==
    /\ kernel.phase = "reference"
    /\ kernel.done = {"original", "naive", "round_trip"}
    /\ kernel.rule = "Day&Night"
    /\ grid.width = 65
    /\ WithoutPadding(grid) # grid
    /\ BitGrid_count_alive(kernel.naive) > 0
    /\ BitGrid_count_alive(kernel.round_trip) > 0

\* live bits among the 8 neighbours of stored position (X, y) on the torus
\* of the stored bits of g: 64 * chunk_width wide, height high
StoredLiveNeighbours(g, X, y) ==
    Cardinality({ d \in Offsets :
        RowStoredBit(g, (X + d[1]) % (64 * g.chunk_width), (y + d[2]) % g.height) })

\* C28: every stored bit (X, y) of the grid evolve_simd returns is the table
\* entry for the stored bit (X, y) of the input and the number of its 8
\* neighbours on the torus of the stored bits; where width is a multiple of
\* 64 the result agrees with BitGrid::evolve at every cell.
C28_SimdIsTorusOfStoredBits ==
    Returned("evolve_simd") =>
        /\ BitGrid_dimensions(result) = BitGrid_dimensions(grid)
        /\ DOMAIN result.chunks = DOMAIN grid.chunks
        /\ \A i \in DOMAIN result.chunks : \A b \in Lanes :
              LET X == 64 * (i % grid.chunk_width) + b
                  y == i \div grid.chunk_width
              IN  (b \in result.chunks[i]) =
                      build_rule_lookup(call.rule)[
                          (IF RowStoredBit(grid, X, y) THEN 16 ELSE 0)
                          + StoredLiveNeighbours(grid, X, y) ]
        /\ grid.width % 64 = 0 => AgreeInRange(result, BitGrid_evolve(grid, call.rule))

\* a generation of a 70-wide grid in which padding bits are alive before and
\* after, and in-range cells are alive after
C28_Witness ==
    /\ Returned("evolve_simd")
    /\ grid.width = 70
    /\ WithoutPadding(grid) # grid
    /\ WithoutPadding(result) # result
    /\ AliveCells(result) # {}

\* C29: a blocked call with generations = 0, serial or parallel, on any grid
\* with width >= 1 and height >= 1 completes without error and returns a grid
\* equal to the input at every in-range cell.
C29_GatherScatterIsIdentity ==
    ( /\ call.name \in {"evolve_temporal_blocking",
                        "evolve_temporal_blocking_parallel"}
      /\ call.generations = 0 ) =>
        /\ call.status # "panicked"
        /\ call.status = "returned" => AgreeInRange(result, grid)

\* C30: in GameState the generation counter equals the number of generations
\* applied to the grid since the last reset: a tick that fires replaces the
\* grid by its next generation under the rule and adds exactly 1 to the
\* counter, whatever the algorithm; a tick while not running changes neither
\* the grid nor the counter.
C30_GenerationCountsGenerations ==
    kernel.phase = "game" =>
        /\ kernel.generation = kernel.applied
        /\ kernel.ticked = "fired" =>
              /\ kernel.generation = kernel.before_generation + 1
              /\ AgreeInRange(grid, BitGrid_evolve(kernel.before, kernel.rule))
        /\ kernel.ticked = "paused" =>
              /\ kernel.generation = kernel.before_generation
              /\ grid = kernel.before

=============================================================================
